---- MODULE Spec2Model ----
(***************************************************************************)
(* Mobilitetsdashbord for Asker: the static generator (generer_dashbord.py *)
(* and the script of the page it writes) and the live server (main.py).    *)
(*                                                                         *)
(* Numbers.  A cell of a numeric column is Null (a missing or unparseable  *)
(* value, NaN after pd.to_numeric(errors="coerce")) or <<v>>.  A computed  *)
(* number is an exact fraction <<n, d>> in lowest terms with d > 0; the    *)
(* results of a floating-point division by zero are <<0, 0>> (NaN),        *)
(* <<1, 0>> (inf) and <<-1, 0>> (-inf).  pd.NA and None are Null.          *)
(* Strings of digits (a date, a clock time) are tuples of their fields or  *)
(* digits, compared the way the strings compare.                           *)
(***************************************************************************)
EXTENDS Integers, Sequences, FiniteSets, TLC

VARIABLES
    mode,       \* which delivery mode runs: "static" (generator + page) or "live"
    koRows,     \* data/inndata_asker_ko.csv, one record per line, in file order
    pc,         \* static: "start" before main() ran, "generated" once docs/index.html is written
    koData,     \* static: the embedded lookup table  const koData = {...}
    page,       \* static: the page the reader asked for last
    nav,        \* static: the pages, nav buttons and sidebars that are shown
    koSel,      \* static: the widgets of the sidebar of 'forsinkelser'
    koChart,    \* static: what Plotly.newPlot last drew in 'ko-chart'
    liveSel,    \* live: the widgets of page_forsinkelser (st.session_state)
    liveOut,    \* live: what the last run of page_forsinkelser rendered
    nokRows,    \* data/inndata_asker_nokkel.csv, one record per line, in file order
    nokkelData, \* static: the embedded  const nokkelData = {...}
    nokSel,     \* static: the options selected in 'omrade-fra' and 'omrade-til'
    sankeyBtn,  \* static: style.display of the button 'sankey-btn'
    modal,      \* static: the modal of the flows and its two radio buttons
    sankeyChart, \* static: what Plotly.newPlot last drew in 'sankey-chart'
    nokChart,   \* static: what Plotly.newPlot last drew in 'nokkel-chart'
    csvExportData, \* static: the global  let csvExportData = []
    smooth,     \* a call of beregnGlidendeGjennomsnitt: its arguments and what it returned
    download,   \* static: what the last click on 'csv-btn' gave the reader
    files,      \* the source files that exist in data/
    db,         \* live: the lines of the congestion table of the ClickHouse database
    cache       \* live: what st.cache_data holds of load_forsinkelser_data

\* The state of the congestion views and the state of the flows.
koVars == <<koRows, koData, koSel, koChart, liveSel, liveOut>>

flowVars ==
    <<nokRows, nokkelData, nokSel, sankeyBtn, modal, sankeyChart, nokChart, csvExportData>>

\* The calls of functions of the page taken by themselves.
pureVars == <<smooth>>

\* The files, the database and what is kept between the runs.
ioVars == <<download, files, db, cache>>

vars == <<mode, pc, page, nav, koVars, flowVars, pureVars, ioVars>>

-----------------------------------------------------------------------------
(* Bounds of the model. *)

\* Number of lines of the congestion file.
MaxRows == 3

\* Number of distinct quarters of the flow file.
MaxQuarters == 5

\* Number of origin zones and of destination zones of the flow file.
NFra == 4

NTil == 3

\* Length of a series handed to the smoother, and its window.
MaxLen == 4

MaxWindow == 5

-----------------------------------------------------------------------------
(* Arithmetic on exact fractions. *)

Null == <<>>

NaN == <<0, 0>>

Abs(n) == IF n < 0 THEN -n ELSE n

Sgn(n) == IF n < 0 THEN -1 ELSE IF n > 0 THEN 1 ELSE 0

Min2(a, b) == IF a <= b THEN a ELSE b

RECURSIVE Gcd(_, _)
Gcd(a, b) == IF b = 0 THEN a ELSE Gcd(b, a % b)

\* n / d as floating-point division gives it: a fraction in lowest terms,
\* and NaN, inf or -inf when d = 0.
Div(n, d) ==
    IF d = 0 THEN <<Sgn(n), 0>>
    ELSE LET g == Gcd(Abs(n), Abs(d))
             s == Sgn(d)
         IN  <<(s * n) \div g, (s * d) \div g>>

\* pd.notna(x): neither None / pd.NA nor NaN (an infinity is not missing).
NotNa(x) == x # Null /\ x # NaN

\* The integer nearest to n / d (d > 0), ties to the even one.
RoundHalfEven(n, d) ==
    LET q == n \div d
        r == n % d
    IN  IF 2 * r < d THEN q
        ELSE IF 2 * r > d THEN q + 1
        ELSE IF q % 2 = 0 THEN q ELSE q + 1

\* round(x, 3) of a finite number.
Round3(x) == Div(RoundHalfEven(1000 * x[1], x[2]), 1000)

\* [round(x, 3) if pd.notna(x) else None for x in ...]
Round3OrNone(s) == [i \in 1..Len(s) |-> IF NotNa(s[i]) THEN Round3(s[i]) ELSE Null]

RECURSIVE SumSeq(_)
SumSeq(s) == IF s = <<>> THEN 0 ELSE Head(s) + SumSeq(Tail(s))

-----------------------------------------------------------------------------
(* Sequences as pandas and JavaScript use them. *)

\* Lexicographic order of two tuples of numbers: the order of the strings
\* whose fixed-width fields (or digits) they are.
LexLess(a, b) ==
    \/ \E i \in 1..Min2(Len(a), Len(b)) :
          /\ a[i] < b[i]
          /\ \A j \in 1..(i - 1) : a[j] = b[j]
    \/ /\ Len(a) < Len(b)
       /\ \A j \in 1..Len(a) : a[j] = b[j]

\* Series.unique(): the distinct values in order of first appearance.
Unique(s) ==
    LET first == SelectSeq([i \in 1..Len(s) |-> i],
                           LAMBDA i : \A j \in 1..(i - 1) : s[j] # s[i])
    IN  [k \in 1..Len(first) |-> s[first[k]]]

\* A stable sort of s (sort_values on one column): keys[i] is the tuple of
\* numbers that element i is ordered by; element i goes behind the elements
\* with a smaller key and behind those of an equal key that precede it.
SortBy(s, keys) ==
    LET rank(i) == 1 + Cardinality({j \in 1..Len(s) :
                        \/ LexLess(keys[j], keys[i])
                        \/ (keys[j] = keys[i] /\ j < i)})
    IN  [r \in 1..Len(s) |-> s[CHOOSE i \in 1..Len(s) : rank(i) = r]]

\* The keys of a groupby (sort=True): the distinct values, ascending by keys.
GroupKeys(s, keys) == Unique(SortBy(s, keys))

Column(df, col) == [i \in 1..Len(df) |-> df[i][col]]

\* Ascending order of a list of integers.
SortInts(s) == SortBy(s, [i \in 1..Len(s) |-> <<s[i]>>])

\* Series.median() taking the upper of the two middle cells of an even count.
MedianUpper(cells) ==
    LET present == SelectSeq(cells, LAMBDA c : c # Null)
        v == SortInts([i \in 1..Len(present) |-> present[i][1]])
        n == Len(v)
    IN  IF n = 0 THEN NaN ELSE Div(v[n \div 2 + 1], 1)

\* Series.median(): the median of the non-missing cells, NaN when there is none.
Median(cells) ==
    LET present == SelectSeq(cells, LAMBDA c : c # Null)
        v == SortInts([i \in 1..Len(present) |-> present[i][1]])
        n == Len(v)
    IN  IF n = 0 THEN NaN
        ELSE IF n % 2 = 1 THEN Div(v[(n + 1) \div 2], 1)
        ELSE Div(v[n \div 2] + v[n \div 2 + 1], 2)

-----------------------------------------------------------------------------
(* Dates and clock times. *)

\* A date <<year, month, day>>; datetime order is chronological order.
DatoLess(a, b) == LexLess(a, b)

\* dt.strftime("%d.%m.%Y"): the fields day, month, year of the string.
DatoStr(d) == <<d[3], d[2], d[1]>>

\* pd.to_datetime(klokkeslett.astype(str)).dt.strftime("%H:%M")
KlokkeHHMM(k) ==
    LET hour == 10 * k[1] + k[2]
        minute == 10 * k[3] + k[4]
    IN  <<hour \div 10, hour % 10, minute \div 10, minute % 10>>

-----------------------------------------------------------------------------
(* The static generator: aggregate_ko_data. *)

\* weighted_avg_ko with the weights' sign left unchecked.
weighted_avg_ko_any_weight(group) ==
    LET sel == SelectSeq(group, LAMBDA r : r.ko_min_km # Null /\ r.bil # Null)
    IN  IF Len(sel) = 0 THEN NaN
        ELSE Div(SumSeq([i \in 1..Len(sel) |-> sel[i].ko_min_km[1] * sel[i].bil[1]]),
                 SumSeq([i \in 1..Len(sel) |-> sel[i].bil[1]]))

\* def weighted_avg_ko(group), the closure of aggregate_ko_data
weighted_avg_ko(group) ==
    LET masked == SelectSeq(group, LAMBDA r :
                      r.ko_min_km # Null /\ r.bil # Null /\ r.bil[1] > 0)
    IN  IF Len(masked) = 0 THEN NaN
        ELSE Div(SumSeq([i \in 1..Len(masked) |-> masked[i].ko_min_km[1] * masked[i].bil[1]]),
                 SumSeq([i \in 1..Len(masked) |-> masked[i].bil[1]]))

\* def weighted_avg_forsinkelser(group)
weighted_avg_forsinkelser(group) ==
    LET masked == SelectSeq(group, LAMBDA r :
                      r.forsinkelser # Null /\ r.bil # Null /\ r.bil[1] > 0)
    IN  IF Len(masked) = 0 THEN NaN
        ELSE Div(SumSeq([i \in 1..Len(masked) |-> masked[i].forsinkelser[1] * masked[i].bil[1]]),
                 SumSeq([i \in 1..Len(masked) |-> masked[i].bil[1]]))

\* agg.sort_values("dato_str"): the order of the strings "dd.mm.yyyy".
SortValuesDatoStr(agg) ==
    SortBy(agg, [i \in 1..Len(agg) |-> DatoStr(agg[i].dato)])

\* agg.sort_values("dato")
SortValuesDato(agg) == SortBy(agg, Column(agg, "dato"))

\* agg.sort_values("klokkeslett")
SortValuesKlokkeslett(agg) == SortBy(agg, Column(agg, "klokkeslett"))

\* df_tid.groupby("dato").apply(weighted averages).reset_index()
GroupAlleDato(df_tid) ==
    LET keys == GroupKeys(Column(df_tid, "dato"), Column(df_tid, "dato"))
        g(d) == SelectSeq(df_tid, LAMBDA r : r.dato = d)
    IN  [i \in 1..Len(keys) |->
            [dato |-> keys[i],
             ko_min_km |-> weighted_avg_ko(g(keys[i])),
             forsinkelser |-> weighted_avg_forsinkelser(g(keys[i]))]]

\* df_tid.groupby("klokkeslett").apply(weighted averages).reset_index()
GroupAlleKlokke(df_tid) ==
    LET keys == GroupKeys(Column(df_tid, "klokkeslett"), Column(df_tid, "klokkeslett"))
        g(k) == SelectSeq(df_tid, LAMBDA r : r.klokkeslett = k)
    IN  [i \in 1..Len(keys) |->
            [klokkeslett |-> keys[i],
             ko_min_km |-> weighted_avg_ko(g(keys[i])),
             forsinkelser |-> weighted_avg_forsinkelser(g(keys[i]))]]

\* The groups of one stop by date with the weighted averages of the
\* 'Alle strekninger' branch in place of the medians.
GroupStopDatoWeighted(df_stop) ==
    LET keys == GroupKeys(Column(df_stop, "dato"), Column(df_stop, "dato"))
        g(d) == SelectSeq(df_stop, LAMBDA r : r.dato = d)
    IN  [i \in 1..Len(keys) |->
            [dato |-> keys[i],
             ko_min_km |-> weighted_avg_ko(g(keys[i])),
             forsinkelser |-> weighted_avg_forsinkelser(g(keys[i]))]]

\* df_stop.groupby(["dato", "dato_str"]).agg(median).reset_index()
GroupStopDato(df_stop) ==
    LET keys == GroupKeys(Column(df_stop, "dato"), Column(df_stop, "dato"))
        g(d) == SelectSeq(df_stop, LAMBDA r : r.dato = d)
    IN  [i \in 1..Len(keys) |->
            [dato |-> keys[i],
             ko_min_km |-> Median(Column(g(keys[i]), "ko_min_km")),
             forsinkelser |-> Median(Column(g(keys[i]), "forsinkelser"))]]

\* df_stop.groupby("klokkeslett").agg(median).reset_index()
GroupStopKlokke(df_stop) ==
    LET keys == GroupKeys(Column(df_stop, "klokkeslett"), Column(df_stop, "klokkeslett"))
        g(k) == SelectSeq(df_stop, LAMBDA r : r.klokkeslett = k)
    IN  [i \in 1..Len(keys) |->
            [klokkeslett |-> keys[i],
             ko_min_km |-> Median(Column(g(keys[i]), "ko_min_km")),
             forsinkelser |-> Median(Column(g(keys[i]), "forsinkelser"))]]

\* The entry {"datoer": ..., "ko": ..., "forsinkelser": ...} of a sorted aggregate.
EntryDato(agg) ==
    [datoer |-> [i \in 1..Len(agg) |-> DatoStr(agg[i].dato)],
     ko |-> Round3OrNone(Column(agg, "ko_min_km")),
     forsinkelser |-> Round3OrNone(Column(agg, "forsinkelser"))]

\* The entry {"klokkeslett": ..., "ko": ..., "forsinkelser": ...}.
EntryKlokke(agg) ==
    [klokkeslett |-> Column(agg, "klokkeslett"),
     ko |-> Round3OrNone(Column(agg, "ko_min_km")),
     forsinkelser |-> Round3OrNone(Column(agg, "forsinkelser"))]

\* aggregated = {}
EmptyTable == [k \in {} |-> Null]

\* aggregated[key] = entry
Put(aggregated, key, entry) ==
    [k \in (DOMAIN aggregated) \cup {key} |-> IF k = key THEN entry ELSE aggregated[k]]

\* f"{stop}_{tid_dag}" and f"{stop}_{tid_dag}_klokkeslett"
KeyDato(stop, tid_dag) == stop \o "_" \o tid_dag

KeyKlokke(stop, tid_dag) == stop \o "_" \o tid_dag \o "_klokkeslett"

\* for stop in df_tid["stop_name"].dropna().unique(): the two entries of each stop
RECURSIVE AggStops(_, _, _, _)
AggStops(aggregated, df_tid, tid_dag, stops) ==
    IF stops = <<>> THEN aggregated
    ELSE LET stop == Head(stops)
             df_stop == SelectSeq(df_tid, LAMBDA r : r.stop_name = stop)
             a1 == Put(aggregated, KeyDato(stop, tid_dag),
                       EntryDato(SortValuesDato(GroupStopDato(df_stop))))
             a2 == Put(a1, KeyKlokke(stop, tid_dag),
                       EntryKlokke(SortValuesKlokkeslett(GroupStopKlokke(df_stop))))
         IN  AggStops(a2, df_tid, tid_dag, Tail(stops))

\* One round of  for tid_dag in ["Morgen", "Ettermiddag"]
AggTidDag(aggregated, df, tid_dag) ==
    LET df_tid == SelectSeq(df, LAMBDA r : r.tid_dag = tid_dag)
    IN  IF Len(df_tid) = 0 THEN aggregated
        ELSE LET a1 == Put(aggregated, KeyDato("Alle strekninger", tid_dag),
                           EntryDato(SortValuesDato(GroupAlleDato(df_tid))))
                 a2 == Put(a1, KeyKlokke("Alle strekninger", tid_dag),
                           EntryKlokke(SortValuesKlokkeslett(GroupAlleKlokke(df_tid))))
             IN  AggStops(a2, df_tid, tid_dag, Unique(Column(df_tid, "stop_name")))

aggregate_ko_data(df) ==
    AggTidDag(AggTidDag(EmptyTable, df, "Morgen"), df, "Ettermiddag")

-----------------------------------------------------------------------------
(* The page the generator writes: the sidebar of 'forsinkelser'. *)

\* Python's order of the location names that occur in the model.
NameOrder == <<"Alle strekninger", "Drammensveien", "Slemmestadveien">>

NameRank(a) == CHOOSE i \in 1..Len(NameOrder) : NameOrder[i] = a

\* strekninger_ko = ["Alle strekninger"] + sorted(ko_data["stop_name"].dropna().unique())
strekninger_ko(df) ==
    LET names == Unique(Column(df, "stop_name"))
    IN  <<"Alle strekninger">> \o SortBy(names, [i \in 1..Len(names) |-> <<NameRank(names[i])>>])

\* The pages of the dashboard, <div class="page" id="page-...">.
Pages == {"hjem", "forsinkelser", "reisestatistikk", "nokkeltall", "kart"}

\* The pages that have a <div class="sidebar" id="sidebar-...">.
SidebarPages == {"forsinkelser", "reisestatistikk", "nokkeltall"}

\* The buttons of <div class="nav">, by their text, with their onclick attribute.
OnClick ==
    [b \in {"Hjem", "Forsinkelser og køer", "Reisestatistikk Asker sentrum",
            "Reisestrømmer i Asker kommune", "Kart"} |->
        CASE b = "Hjem" -> "showPage('hjem')"
          [] b = "Forsinkelser og køer" -> "showPage('forsinkelser')"
          [] b = "Reisestatistikk Asker sentrum" -> "showPage('reisestatistikk')"
          [] b = "Reisestrømmer i Asker kommune" -> "showPage('nokkeltall')"
          [] b = "Kart" -> "showPage('kart')"]

NavButtons == DOMAIN OnClick

\* The button a click on which calls showPage(page): the event.target of the call.
ButtonOf(p) == CHOOSE b \in NavButtons : OnClick[b] = "showPage('" \o p \o "')"

\* The home cards, <div class="home-card" onclick="navigateTo('...')">.
HomeCards == {"forsinkelser", "kart", "reisestatistikk", "nokkeltall"}

\* The page as it is loaded: 'page-hjem' and the button 'Hjem' carry the
\* class active, every sidebar has display: none.
NavInit == [pages |-> {"hjem"}, buttons |-> {"Hjem"}, sidebars |-> {}]

\* The sidebar the two functions show after the page.
SidebarOf(p) == IF p \in SidebarPages THEN {p} ELSE {}

\* showPage() that leaves the buttons marked before as they are.
showPageKeepsButtons(dom, p, target) ==
    [pages |-> (dom.pages \ Pages) \cup {p},
     buttons |-> dom.buttons \cup {target},
     sidebars |-> (dom.sidebars \ SidebarPages) \cup SidebarOf(p)]

\* function showPage(page), called by a click on the nav button target:
\* the classes and styles it leaves.
showPage(dom, p, target) ==
    [pages |-> (dom.pages \ Pages) \cup {p},
     buttons |-> (dom.buttons \ NavButtons) \cup {target},
     sidebars |-> (dom.sidebars \ SidebarPages) \cup SidebarOf(p)]

\* function navigateTo(page): the same, the button marked being the one
\* whose onclick attribute is the call of showPage for the page.
navigateTo(dom, p) ==
    [pages |-> (dom.pages \ Pages) \cup {p},
     buttons |-> (dom.buttons \ NavButtons)
                    \cup {b \in NavButtons : OnClick[b] = "showPage('" \o p \o "')"},
     sidebars |-> (dom.sidebars \ SidebarPages) \cup SidebarOf(p)]

\* The widgets as the page is loaded (the options marked selected / checked).
KoSelInit ==
    [strekning |-> "Alle strekninger", visning |-> "ko", xakse |-> "dato", tid |-> "Morgen"]

\* The empty <div id="ko-chart">.
NoChart == [drawn |-> FALSE]

\* function updateKoChart(): the chart it leaves in 'ko-chart'.
updateKoChart(data, sel, chart) ==
    IF sel.xakse = "dato"
    THEN LET dataKey == sel.strekning \o "_" \o sel.tid
         IN  IF dataKey \notin DOMAIN data THEN chart
             ELSE [drawn |-> TRUE,
                   x |-> data[dataKey].datoer,
                   y |-> IF sel.visning = "ko" THEN data[dataKey].ko
                                               ELSE data[dataKey].forsinkelser,
                   type |-> "scatter",
                   title |-> <<sel.visning, sel.strekning, sel.tid>>]
    ELSE LET dataKey == sel.strekning \o "_" \o sel.tid \o "_klokkeslett"
         IN  IF dataKey \notin DOMAIN data THEN chart
             ELSE [drawn |-> TRUE,
                   x |-> data[dataKey].klokkeslett,
                   y |-> IF sel.visning = "ko" THEN data[dataKey].ko
                                               ELSE data[dataKey].forsinkelser,
                   type |-> "bar",
                   title |-> <<sel.visning, sel.strekning, sel.tid>>]

-----------------------------------------------------------------------------
(* The live server: load_forsinkelser_data and page_forsinkelser. *)

\* load_forsinkelser_data(): klokkeslett becomes "%H:%M".
load_forsinkelser_data(rows) ==
    [i \in 1..Len(rows) |-> [rows[i] EXCEPT !.klokkeslett = KlokkeHHMM(rows[i].klokkeslett)]]

\* weighted_avg without the division by the sum of the weights.
weighted_avg_undivided(group, y_col) ==
    LET masked == SelectSeq(group, LAMBDA r : r[y_col] # Null /\ r.bil # Null)
    IN  IF Len(masked) = 0 THEN Null
        ELSE Div(SumSeq([i \in 1..Len(masked) |-> masked[i][y_col][1] * masked[i].bil[1]]), 1)

\* def weighted_avg(group) of page_forsinkelser (both axes), y_col the metric.
weighted_avg(group, y_col) ==
    LET masked == SelectSeq(group, LAMBDA r : r[y_col] # Null /\ r.bil # Null)
    IN  IF Len(masked) = 0 THEN Null
        ELSE Div(SumSeq([i \in 1..Len(masked) |-> masked[i][y_col][1] * masked[i].bil[1]]),
                 SumSeq([i \in 1..Len(masked) |-> masked[i].bil[1]]))

\* The sort keys of groupby([col, "stop_name"]): by col, then by the name.
StopKeyOrder(df, col) ==
    [i \in 1..Len(df) |-> Append(df[i][col], NameRank(df[i].stop_name))]

\* df_tid.groupby(["dato", "dato_str"]).apply(weighted_avg).reset_index(name=y_col)
LiveAlleDato(df_tid, y_col) ==
    LET keys == GroupKeys(Column(df_tid, "dato"), Column(df_tid, "dato"))
        g(d) == SelectSeq(df_tid, LAMBDA r : r.dato = d)
    IN  [i \in 1..Len(keys) |->
            [dato |-> keys[i], dato_str |-> DatoStr(keys[i]),
             strekning |-> "Alle strekninger", y |-> weighted_avg(g(keys[i]), y_col)]]

\* df_tid[stop_name.isin(valgte)].groupby(["dato", "dato_str", "stop_name"]).agg(median)
LiveStopDato(df_tid, y_col, valgte_strekninger) ==
    LET df_sel == SelectSeq(df_tid, LAMBDA r : r.stop_name \in valgte_strekninger)
        keys == GroupKeys([i \in 1..Len(df_sel) |-> <<df_sel[i].dato, df_sel[i].stop_name>>],
                          StopKeyOrder(df_sel, "dato"))
        g(k) == SelectSeq(df_sel, LAMBDA r : r.dato = k[1] /\ r.stop_name = k[2])
    IN  [i \in 1..Len(keys) |->
            [dato |-> keys[i][1], dato_str |-> DatoStr(keys[i][1]),
             strekning |-> keys[i][2], y |-> Median(Column(g(keys[i]), y_col))]]

\* df_tid.groupby("klokkeslett").apply(weighted_avg).reset_index(name=y_col)
LiveAlleKlokke(df_tid, y_col) ==
    LET keys == GroupKeys(Column(df_tid, "klokkeslett"), Column(df_tid, "klokkeslett"))
        g(k) == SelectSeq(df_tid, LAMBDA r : r.klokkeslett = k)
    IN  [i \in 1..Len(keys) |->
            [klokkeslett |-> keys[i],
             strekning |-> "Alle strekninger", y |-> weighted_avg(g(keys[i]), y_col)]]

\* df_tid[stop_name.isin(valgte)].groupby(["klokkeslett", "stop_name"]).agg(median)
LiveStopKlokke(df_tid, y_col, valgte_strekninger) ==
    LET df_sel == SelectSeq(df_tid, LAMBDA r : r.stop_name \in valgte_strekninger)
        keys == GroupKeys([i \in 1..Len(df_sel) |-> <<df_sel[i].klokkeslett, df_sel[i].stop_name>>],
                          StopKeyOrder(df_sel, "klokkeslett"))
        g(k) == SelectSeq(df_sel, LAMBDA r : r.klokkeslett = k[1] /\ r.stop_name = k[2])
    IN  [i \in 1..Len(keys) |->
            [klokkeslett |-> keys[i][1],
             strekning |-> keys[i][2], y |-> Median(Column(g(keys[i]), y_col))]]

\* min_dato = df["dato"].min()
MinDato(df) == SortValuesDato(df)[1].dato

\* max_dato = df["dato"].max()
MaxDato(df) == SortValuesDato(df)[Len(df)].dato

\* The widgets of the first run (default=[], index=0, value=min_dato).
LiveSelInit(df) ==
    [valgte_strekninger |-> {}, diagram_valg |-> "Kø", x_akse_valg |-> "Over dato",
     tid_valg |-> "Morgen", start_dato |-> MinDato(df)]

\* Nothing rendered: the script has not run.
NoRun == [status |-> "none"]

\* export_df = df_plot[[x_col, "strekning", y_col]].rename(columns=...)
ExportDf(df_plot, x_col) ==
    [i \in 1..Len(df_plot) |->
        [x |-> df_plot[i][x_col], strekning |-> df_plot[i].strekning, y |-> df_plot[i].y]]

\* def page_forsinkelser(): what one run of the script renders.
page_forsinkelser(df, sel) ==
    LET y_col == IF sel.diagram_valg = "Kø" THEN "ko_min_km" ELSE "forsinkelser"
        df_tid0 == SelectSeq(df, LAMBDA r : r.tid_dag = sel.tid_valg)
        df_tid1 == IF sel.x_akse_valg = "Over dato"
                   THEN SelectSeq(df_tid0, LAMBDA r : ~DatoLess(r.dato, sel.start_dato))
                   ELSE df_tid0
        df_tid == SelectSeq(df_tid1, LAMBDA r : r[y_col] # Null)
    IN  IF Len(df_tid) = 0 THEN [status |-> "warning"]
        ELSE IF sel.x_akse_valg = "Over dato"
        THEN LET df_plot == SortValuesDato(
                                IF sel.valgte_strekninger = {}
                                THEN LiveAlleDato(df_tid, y_col)
                                ELSE LiveStopDato(df_tid, y_col, sel.valgte_strekninger))
             IN  [status |-> "chart", type |-> "line", y_col |-> y_col, df_plot |-> df_plot,
                  export_df |-> ExportDf(df_plot, "dato_str")]
        ELSE LET df_plot == SortValuesKlokkeslett(
                                IF sel.valgte_strekninger = {}
                                THEN LiveAlleKlokke(df_tid, y_col)
                                ELSE LiveStopKlokke(df_tid, y_col, sel.valgte_strekninger))
             IN  [status |-> "chart", type |-> "bar", y_col |-> y_col, df_plot |-> df_plot,
                  export_df |-> ExportDf(df_plot, "klokkeslett")]

-----------------------------------------------------------------------------
(* The smoother of the page. *)

\* Math.round(n / d) for d > 0: the nearest integer, a tie going upwards.
MathRound(n, d) == (2 * n + d) \div (2 * d)

\* A number cut to two decimals.
Round2Floor(x) == Div((100 * x[1]) \div x[2], 100)

\* Math.round(x * 100) / 100 of a finite number x.
Round2(x) == Div(MathRound(100 * x[1], x[2]), 100)

\* sum += v for two finite numbers.
Plus(a, b) == Div(a[1] * b[2] + b[1] * a[2], a[2] * b[2])

\* values[j] != null && !isNaN(values[j])
IsValue(v) == v # Null /\ v # NaN

\* The inner loop  for (let j = start; j <= end; j++): the sum and the count
\* of the values of the window.
RECURSIVE WindowSum(_, _, _)
WindowSum(values, start, end) ==
    IF start > end THEN [sum |-> <<0, 1>>, count |-> 0]
    ELSE LET rest == WindowSum(values, start, end - 1)
         IN  IF IsValue(values[end + 1])
             THEN [sum |-> Plus(rest.sum, values[end + 1]), count |-> rest.count + 1]
             ELSE rest

\* A window that reaches one place further back than forward.
beregnGlidendeGjennomsnittTrailing(values, windowSize) ==
    LET halfWindow == windowSize \div 2
    IN  [x \in 1..Len(values) |->
            LET i == x - 1
                start == IF i - halfWindow - 1 > 0 THEN i - halfWindow - 1 ELSE 0
                end == Min2(Len(values) - 1, i + halfWindow)
                w == WindowSum(values, start, end)
            IN  IF w.count > 0
                THEN Round2(Div(w.sum[1], w.sum[2] * w.count))
                ELSE Null]

\* function beregnGlidendeGjennomsnitt(values, windowSize); the indices of
\* the source count from 0, those of the sequences from 1.
beregnGlidendeGjennomsnitt(values, windowSize) ==
    LET halfWindow == windowSize \div 2
    IN  [x \in 1..Len(values) |->
            LET i == x - 1
                start == IF i - halfWindow > 0 THEN i - halfWindow ELSE 0
                end == Min2(Len(values) - 1, i + halfWindow)
                w == WindowSum(values, start, end)
            IN  IF w.count > 0
                THEN Round2(Div(w.sum[1], w.sum[2] * w.count))
                ELSE Null]

\* No call of the smoother yet.
NoSmooth == [values |-> <<>>, windowSize |-> 1, result |-> <<>>, done |-> FALSE]

-----------------------------------------------------------------------------
(* The flows: load_and_process_nokkel_data, prepare_nokkel_data, the sidebar *)
(* of 'nokkeltall' and the modal of the flows.                               *)

\* Python's and JavaScript's order of the zone names that occur in the model.
ZoneOrder == <<"A", "A;B", "A|B", "B", "B|C", "C", "D", "E", "W", "X", "Y", "Z">>

ZoneRank(a) == CHOOSE i \in 1..Len(ZoneOrder) : ZoneOrder[i] = a

\* sorted(names)
SortedZones(names) == SortBy(names, [i \in 1..Len(names) |-> <<ZoneRank(names[i])>>])

\* df["kvartal"].str.replace("-", "").astype(int) of a quarter "YYYY-Q"
KvartalSort(kvartal) == kvartal[1] * 10 + kvartal[2]

\* load_and_process_nokkel_data(): the lines with their sorting key.
load_and_process_nokkel_data(rows) ==
    [i \in 1..Len(rows) |->
        [delomrade_fra |-> rows[i].delomrade_fra, delomrade_til |-> rows[i].delomrade_til,
         kvartal |-> rows[i].kvartal, reiser |-> rows[i].reiser,
         time_of_day |-> rows[i].time_of_day,
         weekday_indicator |-> rows[i].weekday_indicator,
         kvartal_sort |-> KvartalSort(rows[i].kvartal)]]

\* df["kvartal"].unique(): the quarters in the order of the lines.
KvartalerUnsorted(df) == Unique(Column(df, "kvartal"))

\* kvartaler = df.sort_values("kvartal_sort")["kvartal"].unique().tolist()
Kvartaler(df) ==
    Unique(Column(SortBy(df, [i \in 1..Len(df) |-> <<df[i].kvartal_sort>>]), "kvartal"))

\* Python's order of the times of day that occur in the model.
TidOrder == <<"AM", "PM">>

TidRank(a) == CHOOSE i \in 1..Len(TidOrder) : TidOrder[i] = a

\* sorted(tider)
SortedTider(tider) == SortBy(tider, [i \in 1..Len(tider) |-> <<TidRank(tider[i])>>])

\* def prepare_nokkel_data(df)
prepare_nokkel_data(df) ==
    [records |-> [i \in 1..Len(df) |->
                     [delomrade_fra |-> df[i].delomrade_fra,
                      delomrade_til |-> df[i].delomrade_til,
                      kvartal |-> df[i].kvartal, reiser |-> df[i].reiser,
                      time_of_day |-> df[i].time_of_day,
                      weekday_indicator |-> df[i].weekday_indicator]],
     omrader_fra |-> SortedZones(Unique(Column(df, "delomrade_fra"))),
     omrader_til |-> SortedZones(Unique(Column(df, "delomrade_til"))),
     tider |-> SortedTider(Unique(Column(df, "time_of_day"))),
     kvartaler |-> Kvartaler(df)]

\* Nothing embedded: the page is not written yet.
NoNokkelData ==
    [records |-> <<>>, omrader_fra |-> <<>>, omrader_til |-> <<>>, tider |-> <<>>,
     kvartaler |-> <<>>]

\* The widgets of the sidebar as the page is loaded: "Alle" selected and checked.
NokSelInit == [fra |-> {"Alle"}, til |-> {"Alle"}, tid |-> "Alle", ukedag |-> "Alle"]

\* 'all' read as the option 'Alle' selected alone.
AlleValgtAlone(valg) == valg = {"Alle"}

\* fraAlleValgt / tilAlleValgt: valg.includes('Alle') || valg.length === 0
AlleValgt(valg) == "Alle" \in valg \/ valg = {}

\* The window of  beregnGlidendeGjennomsnitt(yValues, 5)
TrendVindu == 5

\* array.includes(x)
Includes(array, x) == \E i \in 1..Len(array) : array[i] = x

\* r.reiser || 0 of a whole count
OrZero(cell) == IF cell = Null THEN 0 ELSE cell[1]

\* Array.from(select.selectedOptions).map(o => o.value): the selected values
\* in the order of the options ("Alle" first, then the zones).
SelectedOptions(options, valg) ==
    (IF "Alle" \in valg THEN <<"Alle">> ELSE <<>>)
        \o SelectSeq(options, LAMBDA o : o \in valg)

\* valg.join(', ')
RECURSIVE JoinComma(_)
JoinComma(valg) ==
    IF valg = <<>> THEN ""
    ELSE IF Len(valg) = 1 THEN valg[1]
    ELSE valg[1] \o ", " \o JoinComma(Tail(valg))

\* r.reiser || 0 as a number: a count of the file is a whole number <<v>> or
\* a number with decimals <<n, d>>.
CountOrZero(cell) ==
    IF cell = Null THEN <<0, 1>> ELSE IF Len(cell) = 1 THEN <<cell[1], 1>> ELSE cell

\* kvartalSum[r.kvartal] += ... over the records, one after the other.
RECURSIVE SumCounts(_)
SumCounts(recs) ==
    IF recs = <<>> THEN <<0, 1>>
    ELSE Plus(SumCounts(SubSeq(recs, 1, Len(recs) - 1)), CountOrZero(recs[Len(recs)].reiser))

\* kvartalSum[k] of the records recs: the sum of  r.reiser || 0.
KvartalSum(recs, k) == SumCounts(SelectSeq(recs, LAMBDA r : r.kvartal = k))

\* The rows of a series with the raw value in place of the trend.
CsvRowsRawForTrend(fraTekst, tilTekst, kvartaler, yValues, trendValues) ==
    [i \in 1..Len(kvartaler) |->
        [omrade_fra |-> fraTekst, omrade_til |-> tilTekst, kvartal |-> kvartaler[i],
         radata |-> yValues[i], trend |-> yValues[i]]]

\* sortedKvartaler.forEach((k, i) => csvExportData.push({...}))
CsvRows(fraTekst, tilTekst, kvartaler, yValues, trendValues) ==
    [i \in 1..Len(kvartaler) |->
        [omrade_fra |-> fraTekst, omrade_til |-> tilTekst, kvartal |-> kvartaler[i],
         radata |-> yValues[i], trend |-> trendValues[i]]]

\* A line of the chart over every quarter of the file.
NokSeriesEveryQuarter(data, recs, navnPunkter, navnLinje, fraTekst, tilTekst) ==
    LET sortedKvartaler ==
            data.kvartaler
        yValues == [i \in 1..Len(sortedKvartaler) |->
                       Round2(KvartalSum(recs, sortedKvartaler[i]))]
        trendValues == beregnGlidendeGjennomsnitt(yValues, TrendVindu)
    IN  [traces |-> << [x |-> sortedKvartaler, y |-> yValues, mode |-> "markers",
                        name |-> navnPunkter],
                       [x |-> sortedKvartaler, y |-> trendValues, mode |-> "lines",
                        name |-> navnLinje] >>,
         csv |-> CsvRows(fraTekst, tilTekst, sortedKvartaler, yValues, trendValues)]

\* One line of the chart: the sums per quarter, their trend, the two traces
\* and the rows for the export.
NokSeries(data, recs, navnPunkter, navnLinje, fraTekst, tilTekst) ==
    LET sortedKvartaler ==
            SelectSeq(data.kvartaler, LAMBDA k : \E i \in 1..Len(recs) : recs[i].kvartal = k)
        yValues == [i \in 1..Len(sortedKvartaler) |->
                       Round2(KvartalSum(recs, sortedKvartaler[i]))]
        trendValues == beregnGlidendeGjennomsnitt(yValues, TrendVindu)
    IN  [traces |-> << [x |-> sortedKvartaler, y |-> yValues, mode |-> "markers",
                        name |-> navnPunkter],
                       [x |-> sortedKvartaler, y |-> trendValues, mode |-> "lines",
                        name |-> navnLinje] >>,
         csv |-> CsvRows(fraTekst, tilTekst, sortedKvartaler, yValues, trendValues)]

\* The lines of the chart: one per zone of splitOmrader where the selection
\* is split (splitOmrader.forEach), one for the whole selection otherwise.
NokLines(splitPaa, fraValg, tilValg, fraTekst, tilTekst) ==
    IF splitPaa = "fra"
    THEN [i \in 1..Len(fraValg) |->
            [paa |-> "fra", omrade |-> fraValg[i], navnPunkter |-> fraValg[i],
             navnLinje |-> fraValg[i], fraTekst |-> fraValg[i], tilTekst |-> tilTekst]]
    ELSE IF splitPaa = "til"
    THEN [i \in 1..Len(tilValg) |->
            [paa |-> "til", omrade |-> tilValg[i], navnPunkter |-> tilValg[i],
             navnLinje |-> tilValg[i], fraTekst |-> fraTekst, tilTekst |-> tilValg[i]]]
    ELSE << [paa |-> "null", omrade |-> "", navnPunkter |-> "Rådata", navnLinje |-> "Trend",
             fraTekst |-> fraTekst, tilTekst |-> tilTekst] >>

\* The lines drawn one after the other: of each the records of its zone
\* (omradeFiltered), its two traces and its rows for the export.
RECURSIVE NokSplit(_, _, _)
NokSplit(data, filtered, lines) ==
    IF lines = <<>> THEN [traces |-> <<>>, csv |-> <<>>]
    ELSE LET n == Len(lines)
             l == lines[n]
             rest == NokSplit(data, filtered, SubSeq(lines, 1, n - 1))
             omradeFiltered ==
                 SelectSeq(filtered, LAMBDA r :
                     \/ l.paa = "null"
                     \/ l.paa = "fra" /\ r.delomrade_fra = l.omrade
                     \/ l.paa = "til" /\ r.delomrade_til = l.omrade)
             s == NokSeries(data, omradeFiltered, l.navnPunkter, l.navnLinje,
                            l.fraTekst, l.tilTekst)
         IN  [traces |-> rest.traces \o s.traces, csv |-> rest.csv \o s.csv]

\* updateNokkelChart() that splits by the to-zones first.
updateNokkelChartTilFirst(data, sel) ==
    LET fraValg == SelectedOptions(data.omrader_fra, sel.fra)
        tilValg == SelectedOptions(data.omrader_til, sel.til)
        fraAlleValgt == AlleValgt(sel.fra)
        tilAlleValgt == AlleValgt(sel.til)
        omraderFra == IF fraAlleValgt THEN data.omrader_fra ELSE fraValg
        omraderTil == IF tilAlleValgt THEN data.omrader_til ELSE tilValg
        splitPaa == IF ~tilAlleValgt /\ Len(tilValg) > 1 THEN "til"
                    ELSE IF ~fraAlleValgt /\ Len(fraValg) > 1 THEN "fra"
                    ELSE "null"
        filtered ==
            SelectSeq(data.records, LAMBDA r :
                /\ Includes(omraderFra, r.delomrade_fra)
                /\ Includes(omraderTil, r.delomrade_til)
                /\ (sel.tid = "Alle" \/ r.time_of_day = sel.tid)
                /\ (sel.ukedag = "Alle" \/ r.weekday_indicator = sel.ukedag))
        fraTekst == IF fraAlleValgt THEN "Alle" ELSE JoinComma(fraValg)
        tilTekst == IF tilAlleValgt THEN "Alle" ELSE JoinComma(tilValg)
        drawn == NokSplit(data, filtered, NokLines(splitPaa, fraValg, tilValg, fraTekst, tilTekst))
    IN  [chart |-> [drawn |-> TRUE, traces |-> drawn.traces],
         csvExportData |-> drawn.csv,
         sankeyBtn |-> IF fraAlleValgt /\ tilAlleValgt THEN "none" ELSE "inline-block"]

\* function updateNokkelChart(): the traces it draws in 'nokkel-chart', the
\* rows it leaves in csvExportData and the display of 'sankey-btn'.
updateNokkelChart(data, sel) ==
    LET fraValg == SelectedOptions(data.omrader_fra, sel.fra)
        tilValg == SelectedOptions(data.omrader_til, sel.til)
        fraAlleValgt == AlleValgt(sel.fra)
        tilAlleValgt == AlleValgt(sel.til)
        omraderFra == IF fraAlleValgt THEN data.omrader_fra ELSE fraValg
        omraderTil == IF tilAlleValgt THEN data.omrader_til ELSE tilValg
        splitPaa == IF ~fraAlleValgt /\ Len(fraValg) > 1 THEN "fra"
                    ELSE IF ~tilAlleValgt /\ Len(tilValg) > 1 THEN "til"
                    ELSE "null"
        filtered ==
            SelectSeq(data.records, LAMBDA r :
                /\ Includes(omraderFra, r.delomrade_fra)
                /\ Includes(omraderTil, r.delomrade_til)
                /\ (sel.tid = "Alle" \/ r.time_of_day = sel.tid)
                /\ (sel.ukedag = "Alle" \/ r.weekday_indicator = sel.ukedag))
        fraTekst == IF fraAlleValgt THEN "Alle" ELSE JoinComma(fraValg)
        tilTekst == IF tilAlleValgt THEN "Alle" ELSE JoinComma(tilValg)
        drawn == NokSplit(data, filtered, NokLines(splitPaa, fraValg, tilValg, fraTekst, tilTekst))
    IN  [chart |-> [drawn |-> TRUE, traces |-> drawn.traces],
         csvExportData |-> drawn.csv,
         sankeyBtn |-> IF fraAlleValgt /\ tilAlleValgt THEN "none" ELSE "inline-block"]

\* ---------------------------------------------------------------------
\* The export of the page of the flows.  A text is a string; its
\* characters are read with Len and SubSeq.
\* ---------------------------------------------------------------------

DigitChars == <<"0", "1", "2", "3", "4", "5", "6", "7", "8", "9">>

\* The decimal digits of a natural number.
RECURSIVE Digits(_)
Digits(n) == IF n < 10 THEN DigitChars[n + 1] ELSE Digits(n \div 10) \o DigitChars[(n % 10) + 1]

\* String(x) of a number x of at most two decimals, as Math.round(.. * 100) / 100
\* gives them: no trailing zero, no point for a whole number.
NumberToString(x) ==
    IF x[2] = 0 THEN (IF x[1] = 0 THEN "NaN" ELSE "Infinity")
    ELSE LET h == Abs((100 * x[1]) \div x[2])
             whole == Digits(h \div 100)
             frac == h % 100
         IN  (IF x[1] < 0 THEN "-" ELSE "")
                \o whole
                \o (IF frac = 0 THEN ""
                    ELSE IF frac % 10 = 0 THEN "." \o Digits(frac \div 10)
                    ELSE "." \o Digits(frac \div 10) \o Digits(frac % 10))

\* s.replace(from, to) for a character from: the first one only.
RECURSIVE ReplaceFirst(_, _, _)
ReplaceFirst(s, from, to) ==
    IF Len(s) = 0 THEN s
    ELSE IF SubSeq(s, 1, 1) = from THEN to \o SubSeq(s, 2, Len(s))
    ELSE SubSeq(s, 1, 1) \o ReplaceFirst(SubSeq(s, 2, Len(s)), from, to)

\* fields.join(sep)
RECURSIVE Join(_, _)
Join(fields, sep) ==
    IF fields = <<>> THEN ""
    ELSE IF Len(fields) = 1 THEN fields[1]
    ELSE fields[1] \o sep \o Join(Tail(fields), sep)

\* A quarter as the file writes it, "2023-1".
KvartalText(kvartal) == Digits(kvartal[1]) \o "-" \o Digits(kvartal[2])

\* row.rådata != null ? String(row.rådata).replace('.', ',') : ''
CellText(cell) == IF cell = Null THEN "" ELSE ReplaceFirst(NumberToString(cell), ".", ",")

\* The character U+FEFF, which no field holds.
BOM == "^"

CsvHeaders == <<"Område fra", "Område til", "Kvartal", "Rådata", "Trend">>

\* function exportCSV(): the alert or the content of 'reisestrommer_asker.csv'.
exportCSV(rows) ==
    IF Len(rows) = 0
    THEN [done |-> TRUE, rows |-> rows, alert |-> "Ingen data å eksportere", file |-> ""]
    ELSE LET lines == [i \in 1..Len(rows) |->
                          Join(<<rows[i].omrade_fra, rows[i].omrade_til,
                                 KvartalText(rows[i].kvartal),
                                 CellText(rows[i].radata), CellText(rows[i].trend)>>, ";")]
         IN  [done |-> TRUE, rows |-> rows, alert |-> "",
              file |-> BOM \o Join(<<Join(CsvHeaders, ";")>> \o lines, "\n")]

\* The modal as the page is loaded: hidden, radio 'fra' checked, both labels shown.
ModalInit == [display |-> "none", retning |-> "fra", fraDisabled |-> FALSE, tilDisabled |-> FALSE]

\* openSankeyModal() that shows and hides the labels but leaves the radio
\* buttons as they are.
openSankeyModalKeepsRadio(sel, m) ==
    [display |-> "block", retning |-> m.retning,
     fraDisabled |-> AlleValgt(sel.fra),
     tilDisabled |-> ~AlleValgt(sel.fra) /\ AlleValgt(sel.til)]

\* function openSankeyModal(), up to the call of updateSankeyChart()
openSankeyModal(sel, m) ==
    IF AlleValgt(sel.fra)
    THEN [display |-> "block", retning |-> "til", fraDisabled |-> TRUE, tilDisabled |-> FALSE]
    ELSE IF AlleValgt(sel.til)
    THEN [display |-> "block", retning |-> "fra", fraDisabled |-> FALSE, tilDisabled |-> TRUE]
    ELSE [display |-> "block", retning |-> m.retning, fraDisabled |-> FALSE, tilDisabled |-> FALSE]

\* The 4 of  nokkelData.kvartaler.slice(-4)
SisteAntall == 4

\* The 10 of  .slice(0, 10)
ToppAntall == 10

\* nokkelData.kvartaler.slice(-4)
SisteKvartaler(kvartaler) ==
    SubSeq(kvartaler, IF Len(kvartaler) > SisteAntall THEN Len(kvartaler) - SisteAntall + 1 ELSE 1,
           Len(kvartaler))

\* The body of forEach: strommer[key] is created on first use, then added to.
\* strommer keeps its entries in the order of their creation.
AddStrom(strommer, r) ==
    LET key == r.delomrade_fra \o "|" \o r.delomrade_til
    IN  IF \E i \in 1..Len(strommer) : strommer[i].key = key
        THEN [i \in 1..Len(strommer) |->
                 IF strommer[i].key = key
                 THEN [strommer[i] EXCEPT !.reiser = @ + OrZero(r.reiser)]
                 ELSE strommer[i]]
        ELSE Append(strommer, [key |-> key, fra |-> r.delomrade_fra,
                               til |-> r.delomrade_til, reiser |-> OrZero(r.reiser)])

\* records.forEach(...) on the empty object strommer
RECURSIVE Strommer(_)
Strommer(records) ==
    IF records = <<>> THEN <<>>
    ELSE AddStrom(Strommer(SubSeq(records, 1, Len(records) - 1)), records[Len(records)])

\* The ten largest with the later of two equal pairs first.
Topp10TiesReversed(strommer) ==
    LET n == Len(strommer)
        sorted == SortBy(strommer, [i \in 1..n |-> <<-strommer[i].reiser, n - i>>])
    IN  [i \in 1..Min2(ToppAntall, n) |->
            [fra |-> sorted[i].fra, til |-> sorted[i].til, reiser |-> sorted[i].reiser]]

\* Object.values(strommer).slice(0, 10), the sort left out.
Topp10Unsorted(strommer) ==
    [i \in 1..Min2(ToppAntall, Len(strommer)) |->
        [fra |-> strommer[i].fra, til |-> strommer[i].til, reiser |-> strommer[i].reiser]]

\* Object.values(strommer).sort((a, b) => b.reiser - a.reiser).slice(0, 10)
Topp10(strommer) ==
    LET sorted == SortBy(strommer, [i \in 1..Len(strommer) |-> <<-strommer[i].reiser>>])
    IN  [i \in 1..Min2(ToppAntall, Len(strommer)) |->
            [fra |-> sorted[i].fra, til |-> sorted[i].til, reiser |-> sorted[i].reiser]]

\* array.indexOf(x), counted from 0
IndexOf(array, x) == (CHOOSE i \in 1..Len(array) : array[i] = x /\ \A j \in 1..(i - 1) : array[j] # x) - 1

\* The empty <div id="sankey-chart">.
NoSankey == [status |-> "none"]

\* One column of nodes for origins and destinations alike.
updateSankeyChartOneColumn(data, sel, retning) ==
    LET sisteKvartaler == SisteKvartaler(data.kvartaler)
        filtered == SelectSeq(data.records, LAMBDA r : Includes(sisteKvartaler, r.kvartal))
        chosen == IF retning = "fra"
                  THEN SelectSeq(filtered, LAMBDA r : r.delomrade_fra \in sel.fra)
                  ELSE SelectSeq(filtered, LAMBDA r : r.delomrade_til \in sel.til)
        topp10 == Topp10(Strommer(chosen))
        alleLabels == Unique([i \in 1..Len(topp10) |-> topp10[i].fra]
                                 \o [i \in 1..Len(topp10) |-> topp10[i].til])
    IN  IF Len(topp10) = 0
        THEN [status |-> "empty", title |-> "Ingen data for valgte filtre"]
        ELSE [status |-> "chart",
              title |-> IF retning = "fra"
                        THEN "Reiser FRA valgte områder (topp 10 destinasjoner)"
                        ELSE "Reiser TIL valgte områder (topp 10 opprinnelser)",
              topp10 |-> topp10,
              label |-> alleLabels,
              source |-> [i \in 1..Len(topp10) |-> IndexOf(alleLabels, topp10[i].fra)],
              target |-> [i \in 1..Len(topp10) |-> IndexOf(alleLabels, topp10[i].til)],
              value |-> [i \in 1..Len(topp10) |-> topp10[i].reiser]]

\* updateSankeyChart() that reads the radio buttons of the time of day as well.
updateSankeyChartOfTid(data, sel, retning) ==
    LET sisteKvartaler == SisteKvartaler(data.kvartaler)
        filtered == SelectSeq(data.records, LAMBDA r :
                        /\ Includes(sisteKvartaler, r.kvartal)
                        /\ (sel.tid = "Alle" \/ r.time_of_day = sel.tid))
        chosen == IF retning = "fra"
                  THEN SelectSeq(filtered, LAMBDA r : r.delomrade_fra \in sel.fra)
                  ELSE SelectSeq(filtered, LAMBDA r : r.delomrade_til \in sel.til)
        topp10 == Topp10(Strommer(chosen))
        fraLabels == Unique([i \in 1..Len(topp10) |-> topp10[i].fra])
        tilLabels == Unique([i \in 1..Len(topp10) |-> topp10[i].til])
    IN  IF Len(topp10) = 0
        THEN [status |-> "empty", title |-> "Ingen data for valgte filtre"]
        ELSE [status |-> "chart",
              title |-> IF retning = "fra"
                        THEN "Reiser FRA valgte områder (topp 10 destinasjoner)"
                        ELSE "Reiser TIL valgte områder (topp 10 opprinnelser)",
              topp10 |-> topp10,
              label |-> fraLabels \o tilLabels,
              source |-> [i \in 1..Len(topp10) |-> IndexOf(fraLabels, topp10[i].fra)],
              target |-> [i \in 1..Len(topp10) |->
                             Len(fraLabels) + IndexOf(tilLabels, topp10[i].til)],
              value |-> [i \in 1..Len(topp10) |-> topp10[i].reiser]]   \* Math.round of an integer

\* function updateSankeyChart(): the chart it leaves in 'sankey-chart'.
updateSankeyChart(data, sel, retning) ==
    LET sisteKvartaler == SisteKvartaler(data.kvartaler)
        filtered == SelectSeq(data.records, LAMBDA r : Includes(sisteKvartaler, r.kvartal))
        chosen == IF retning = "fra"
                  THEN SelectSeq(filtered, LAMBDA r : r.delomrade_fra \in sel.fra)
                  ELSE SelectSeq(filtered, LAMBDA r : r.delomrade_til \in sel.til)
        topp10 == Topp10(Strommer(chosen))
        fraLabels == Unique([i \in 1..Len(topp10) |-> topp10[i].fra])
        tilLabels == Unique([i \in 1..Len(topp10) |-> topp10[i].til])
    IN  IF Len(topp10) = 0
        THEN [status |-> "empty", title |-> "Ingen data for valgte filtre"]
        ELSE [status |-> "chart",
              title |-> IF retning = "fra"
                        THEN "Reiser FRA valgte områder (topp 10 destinasjoner)"
                        ELSE "Reiser TIL valgte områder (topp 10 opprinnelser)",
              topp10 |-> topp10,
              label |-> fraLabels \o tilLabels,
              source |-> [i \in 1..Len(topp10) |-> IndexOf(fraLabels, topp10[i].fra)],
              target |-> [i \in 1..Len(topp10) |->
                             Len(fraLabels) + IndexOf(tilLabels, topp10[i].til)],
              value |-> [i \in 1..Len(topp10) |-> topp10[i].reiser]]   \* Math.round of an integer

-----------------------------------------------------------------------------
(* The congestion files of the model. *)

\* The file rows with its lines in the order perm.
Permuted(rows, perm) == [i \in 1..Len(rows) |-> rows[perm[i]]]


Row(tid_dag, dato, klokkeslett, stop_name, ko_min_km, forsinkelser, bil) ==
    [tid_dag |-> tid_dag, dato |-> dato, klokkeslett |-> klokkeslett,
     stop_name |-> stop_name, ko_min_km |-> ko_min_km,
     forsinkelser |-> forsinkelser, bil |-> bil]

\* 2024-01-15 and 2024-02-01: as dd.mm.yyyy strings they sort the other way round.
Dato1 == <<2024, 1, 15>>

Dato2 == <<2024, 2, 1>>

\* "07:30" and "16:00"
Klokke1 == <<0, 7, 3, 0>>

Klokke2 == <<1, 6, 0, 0>>

\* The lines a congestion file is made of: values 5 and 7, weights 10, 30, 1,
\* 0, -1 and missing, a missing value of each metric, both buckets.
KoPool ==
    { Row("Morgen", Dato1, Klokke1, "Drammensveien", <<5>>, <<2>>, <<10>>),
      Row("Morgen", Dato1, Klokke2, "Slemmestadveien", <<7>>, Null, <<30>>),
      Row("Morgen", Dato2, Klokke1, "Drammensveien", <<7>>, <<4>>, <<1>>),
      Row("Morgen", Dato2, Klokke2, "Drammensveien", <<5>>, <<2>>, <<1>>),
      Row("Morgen", Dato1, Klokke1, "Slemmestadveien", Null, <<4>>, <<0>>),
      Row("Morgen", Dato2, Klokke2, "Slemmestadveien", <<7>>, <<2>>, <<-1>>),
      Row("Ettermiddag", Dato1, Klokke2, "Drammensveien", <<5>>, <<2>>, Null) }

\* The files of 1 to MaxRows different lines of the pool, in every order.
KoFiles(pool) ==
    UNION {{f \in [1..n -> pool] : \A i, j \in 1..n : f[i] = f[j] => i = j} : n \in 1..MaxRows}

-----------------------------------------------------------------------------
(* The flow files of the model. *)

Rec(fra, til, kvartal, reiser) ==
    [delomrade_fra |-> fra, delomrade_til |-> til, kvartal |-> kvartal, reiser |-> reiser,
     time_of_day |-> "AM", weekday_indicator |-> "Weekday"]

\* "2022-4", "2023-1", ... in chronological order.
Quarters ==
    << <<2022, 4>>, <<2023, 1>>, <<2023, 2>>, <<2023, 3>>, <<2023, 4>>, <<2024, 1>>, <<2024, 2>> >>

FraNames == <<"A", "B", "C", "D", "E">>

TilNames == <<"Z", "Y", "X", "W">>

\* The three lines of the scenario: A, B, C to Z with 100, 50 and 10 trips.
ScenarioLines ==
    << Rec("A", "Z", Quarters[2], <<100>>), Rec("B", "Z", Quarters[2], <<50>>),
       Rec("C", "Z", Quarters[2], <<10>>) >>

\* The trips of origin i to destination j in quarter k of a grid file: large in
\* the first quarter, missing here and there, equal for some pairs.
GridTrips(i, j, k) ==
    IF (i + 2 * j + 3 * k) % 7 = 0 THEN Null
    ELSE IF k = 1 THEN <<500 + 10 * i>>
    ELSE <<10 * ((3 * i + 5 * j + 7 * k) % 4)>>

\* The lines of a grid file of m quarters, quarter by quarter; a third of the
\* combinations has no line.
GridLines(m) ==
    LET n == m * NFra * NTil
        k(x) == (x - 1) \div (NFra * NTil) + 1
        i(x) == ((x - 1) % (NFra * NTil)) \div NTil + 1
        j(x) == ((x - 1) % NTil) + 1
        all == [x \in 1..n |->
                   [rec |-> Rec(FraNames[i(x)], TilNames[j(x)], Quarters[k(x)],
                                GridTrips(i(x), j(x), k(x))),
                    keep |-> (i(x) + j(x) + k(x)) % 3 # 0]]
        kept == SelectSeq(all, LAMBDA e : e.keep)
    IN  [x \in 1..Len(kept) |-> kept[x].rec]

Reverse(s) == [x \in 1..Len(s) |-> s[Len(s) + 1 - x]]

\* The lines at the odd places, then those at the even places backwards.
Shuffle(s) ==
    LET odd == [x \in 1..((Len(s) + 1) \div 2) |-> s[2 * x - 1]]
        even == [x \in 1..(Len(s) \div 2) |-> s[2 * x]]
    IN  odd \o Reverse(even)

\* Lines between two zones in both directions and within one of them.
RoundTripLines ==
    << Rec("A", "B", Quarters[2], <<30>>), Rec("B", "A", Quarters[2], <<20>>),
       Rec("A", "A", Quarters[3], <<5>>) >>

\* The flow files: the scenario in every order of its lines, the round trips,
\* and the grid files of 1 to MaxQuarters quarters in three orders of their
\* lines.
NokFiles ==
    {Permuted(ScenarioLines, perm) : perm \in Permutations(1..3)}
        \cup {RoundTripLines, Reverse(RoundTripLines)}
        \cup UNION {{GridLines(m), Reverse(GridLines(m)), Shuffle(GridLines(m))} :
                        m \in 1..MaxQuarters}

\* Flow files with zone names that hold the separator of the keys.
NokFilesKeys ==
    LET lines == << Rec("A|B", "C", Quarters[2], <<100>>), Rec("A", "B|C", Quarters[2], <<50>>),
                    Rec("B", "C", Quarters[1], <<10>>) >>
    IN  {Permuted(lines, perm) : perm \in Permutations(1..3)}

\* The selections of the model in 'omrade-fra' and in 'omrade-til'.
FraChoices(data) ==
    LET o == data.omrader_fra
    IN  {{"Alle"}} \cup (IF o = <<>> THEN {}
                       ELSE {{"Alle", o[1]}, {o[1]}, {o[x] : x \in 1..Min2(2, Len(o))}})

TilChoices(data) ==
    LET o == data.omrader_til
    IN  {{"Alle"}, {}} \cup (IF o = <<>> THEN {} ELSE {{o[1]}, {o[x] : x \in 1..Len(o)}})

-----------------------------------------------------------------------------
(* The state machine. *)

\* The state before main() ran, resp. before the first request, for a
\* congestion file and a flow file.
\* Nothing was downloaded yet.
NoDownload == [done |-> FALSE, rows |-> <<>>, alert |-> "", file |-> ""]

\* The three files that main() reads.
SourceFiles == {"inndata_asker_ko.csv", "inndata_asker_reiser.csv", "inndata_asker_nokkel.csv"}

\* st.cache_data before the first call of the function.
NoCache == [cached |-> FALSE]

\* The two files that the module-level export of the server writes.
KoFile == "inndata_asker_ko.csv"

ExportedFiles == {KoFile, "inndata_asker_reiser.csv"}

\* The state before anything ran, but for the files that exist.
InitData(koFiles, nokFiles, modes) ==
    /\ mode \in modes
    /\ koRows \in koFiles
    /\ nokRows \in nokFiles
    /\ pc = "start"
    /\ koData = EmptyTable
    /\ nokkelData = NoNokkelData
    /\ page = "hjem"
    /\ nav = NavInit
    /\ koSel = KoSelInit
    /\ koChart = NoChart
    /\ liveSel = LiveSelInit(load_forsinkelser_data(koRows))
    /\ liveOut = NoRun
    /\ nokSel = NokSelInit
    /\ sankeyBtn = "none"
    /\ modal = ModalInit
    /\ sankeyChart = NoSankey
    /\ nokChart = NoChart
    /\ csvExportData = <<>>
    /\ download = NoDownload
    /\ db = [up |-> TRUE, rows |-> koRows]
    /\ cache = NoCache

\* All the source files exist.
InitWith(koFiles, nokFiles, modes) ==
    /\ InitData(koFiles, nokFiles, modes)
    /\ files = SourceFiles

\* No function of the page has been called by itself.
NoCalls == smooth = NoSmooth

\* The congestion views: every congestion file, one flow file.
Init == InitWith(KoFiles(KoPool), {ScenarioLines}, {"static", "live"}) /\ NoCalls

\* main() of generer_dashbord.py: load, aggregate, write docs/index.html.
Main ==
    /\ mode = "static"
    /\ pc = "start"
    /\ files = SourceFiles
    /\ pc' = "generated"
    /\ koData' = aggregate_ko_data(koRows)
    /\ nokkelData' = prepare_nokkel_data(load_and_process_nokkel_data(nokRows))
    /\ UNCHANGED <<mode, page, nav, koRows, koSel, koChart, liveSel, liveOut>>
    /\ UNCHANGED <<nokRows, nokSel, sankeyBtn, modal, sankeyChart, nokChart, csvExportData>>
    /\ UNCHANGED <<pureVars, ioVars>>

\* showPage(p) / navigateTo(p): the page becomes active and its chart is redrawn.
\* def main() where pd.read_csv finds no file: the FileNotFoundError is not
\* caught, main() ends with the traceback before it aggregates or writes.
MainFails ==
    /\ mode = "static"
    /\ pc = "start"
    /\ files # SourceFiles
    /\ pc' = "failed"
    /\ UNCHANGED <<mode, page, nav, koVars, flowVars, pureVars, ioVars>>

OpenPage(p, dom) ==
    /\ mode = "static"
    /\ pc = "generated"
    /\ modal.display = "none"
    /\ page' = p
    /\ nav' = dom
    /\ koChart' = IF p = "forsinkelser" THEN updateKoChart(koData, koSel, koChart)
                                      ELSE koChart
    /\ IF p = "nokkeltall"
       THEN LET drawn == updateNokkelChart(nokkelData, nokSel)
            IN  /\ sankeyBtn' = drawn.sankeyBtn
                /\ nokChart' = drawn.chart
                /\ csvExportData' = drawn.csvExportData
       ELSE UNCHANGED <<sankeyBtn, nokChart, csvExportData>>
    /\ UNCHANGED <<mode, pc, koRows, koData, koSel, liveSel, liveOut>>
    /\ UNCHANGED <<nokRows, nokkelData, nokSel, modal, sankeyChart>>
    /\ UNCHANGED <<pureVars, ioVars>>

\* A click on the nav button of the page p.
ShowPage(p) == OpenPage(p, showPage(nav, p, ButtonOf(p)))

\* A click on the home card of the page p, on the home page.
NavigateTo(p) == "hjem" \in nav.pages /\ OpenPage(p, navigateTo(nav, p))

\* A widget of the sidebar changes: onchange="updateKoChart()".
KoWidget(sel) ==
    /\ mode = "static"
    /\ pc = "generated"
    /\ page = "forsinkelser"
    /\ sel # koSel
    /\ koSel' = sel
    /\ koChart' = updateKoChart(koData, sel, koChart)
    /\ UNCHANGED <<mode, pc, page, nav, koRows, koData, liveSel, liveOut, flowVars>>
    /\ UNCHANGED <<pureVars, ioVars>>

SelectStrekningKo ==
    \E i \in 1..Len(strekninger_ko(koRows)) :
        KoWidget([koSel EXCEPT !.strekning = strekninger_ko(koRows)[i]])

SetVisning == \E v \in {"ko", "forsinkelser"} : KoWidget([koSel EXCEPT !.visning = v])

SetXakse == \E x \in {"dato", "klokkeslett"} : KoWidget([koSel EXCEPT !.xakse = x])

SetTid == \E t \in {"Morgen", "Ettermiddag"} : KoWidget([koSel EXCEPT !.tid = t])

\* The live server runs the script again on every widget change.
\* @st.cache_data def load_forsinkelser_data(): the table kept from an
\* earlier call, or the file read now, or FileNotFoundError.
CachedLoad(kept, present, rows) ==
    IF kept.cached THEN [raised |-> FALSE, df |-> kept.df]
    ELSE IF KoFile \in present THEN [raised |-> FALSE, df |-> load_forsinkelser_data(rows)]
    ELSE [raised |-> TRUE]

\* One run of the script with 'Forsinkelser' as the current page: the
\* module-level export from ClickHouse to the two files (an exception of the
\* client ends the run), then page_forsinkelser() with its cached load.
LiveRun(sel) ==
    /\ mode = "live"
    /\ liveSel' = sel
    /\ IF ~db.up
       THEN /\ liveOut' = [status |-> "exception"]
            /\ UNCHANGED <<koRows, files, cache>>
       ELSE LET loaded == CachedLoad(cache, files \cup ExportedFiles, db.rows)
            IN  /\ koRows' = db.rows
                /\ files' = files \cup ExportedFiles
                /\ cache' = IF loaded.raised THEN cache ELSE [cached |-> TRUE, df |-> loaded.df]
                /\ liveOut' = IF loaded.raised THEN [status |-> "error"]
                                                ELSE page_forsinkelser(loaded.df, sel)
    /\ UNCHANGED <<mode, pc, page, nav, koData, koSel, koChart, flowVars>>
    /\ UNCHANGED <<pureVars, download, db>>

\* The table whose stops and dates the widgets of the live page offer.
LiveDf == IF cache.cached THEN cache.df ELSE <<>>

\* The button "Forsinkelser": the page is rendered with the widgets as they are.
LiveOpen == liveOut = NoRun /\ LiveRun(liveSel)

LiveWidget(sel) == liveOut # NoRun /\ sel # liveSel /\ LiveRun(sel)

LiveSetStrekninger ==
    \E valgte \in SUBSET {LiveDf[i].stop_name : i \in 1..Len(LiveDf)} :
        LiveWidget([liveSel EXCEPT !.valgte_strekninger = valgte])

LiveSetDiagram ==
    \E d \in {"Kø", "Forsinkelser buss"} : LiveWidget([liveSel EXCEPT !.diagram_valg = d])

LiveSetXAkse ==
    \E x \in {"Over dato", "Over klokkeslett"} : LiveWidget([liveSel EXCEPT !.x_akse_valg = x])

LiveSetTid ==
    \E t \in {"Morgen", "Ettermiddag"} : LiveWidget([liveSel EXCEPT !.tid_valg = t])

\* st.date_input, disabled over klokkeslett; a date between min_dato and max_dato.
LiveSetStartDato ==
    /\ liveSel.x_akse_valg = "Over dato"
    /\ cache.cached
    /\ \E d \in {Dato1, Dato2} :
          /\ ~DatoLess(d, MinDato(cache.df))
          /\ ~DatoLess(MaxDato(cache.df), d)
          /\ LiveWidget([liveSel EXCEPT !.start_dato = d])

\* The selection of a multiple select changes: onchange="updateNokkelChart()".
\* The modal, while shown, covers the sidebar.
NokWidget(sel) ==
    /\ mode = "static"
    /\ pc = "generated"
    /\ page = "nokkeltall"
    /\ modal.display = "none"
    /\ sel # nokSel
    /\ nokSel' = sel
    /\ LET drawn == updateNokkelChart(nokkelData, sel)
       IN  /\ sankeyBtn' = drawn.sankeyBtn
           /\ nokChart' = drawn.chart
           /\ csvExportData' = drawn.csvExportData
    /\ UNCHANGED <<mode, pc, page, nav, koVars, nokRows, nokkelData, modal, sankeyChart>>
    /\ UNCHANGED <<pureVars, ioVars>>

SelectOmradeFra == \E valg \in FraChoices(nokkelData) : NokWidget([nokSel EXCEPT !.fra = valg])

\* 'Alle' selected together with two zones in 'omrade-fra'.
SelectAlleAndZones ==
    /\ Len(nokkelData.omrader_fra) >= 2
    /\ NokWidget([nokSel EXCEPT !.fra = {"Alle", nokkelData.omrader_fra[1],
                                         nokkelData.omrader_fra[2]}])

SelectOmradeTil == \E valg \in TilChoices(nokkelData) : NokWidget([nokSel EXCEPT !.til = valg])

\* A click on 'csv-btn' of the page of the flows: exportCSV().
ExportCSV ==
    /\ mode = "static"
    /\ pc = "generated"
    /\ page = "nokkeltall"
    /\ modal.display = "none"
    /\ download' = exportCSV(csvExportData)
    /\ UNCHANGED <<mode, pc, page, nav, koVars, flowVars, pureVars, files, db, cache>>

\* The radio buttons 'tid-nokkel': "Alle" and the times of day of the file.
SetTidNokkel ==
    \E tid \in {"Alle"} \cup {nokkelData.tider[i] : i \in 1..Len(nokkelData.tider)} :
        NokWidget([nokSel EXCEPT !.tid = tid])

\* The radio buttons 'ukedag-nokkel'.
SetUkedagNokkel ==
    \E ukedag \in {"Alle", "Weekday", "Weekend"} : NokWidget([nokSel EXCEPT !.ukedag = ukedag])

\* The button 'sankey-btn', where it is shown: openSankeyModal().
OpenSankeyModal ==
    /\ mode = "static"
    /\ pc = "generated"
    /\ page = "nokkeltall"
    /\ sankeyBtn = "inline-block"
    /\ modal.display = "none"
    /\ modal' = openSankeyModal(nokSel, modal)
    /\ sankeyChart' = updateSankeyChart(nokkelData, nokSel, modal'.retning)
    /\ UNCHANGED <<mode, pc, page, nav, koVars, nokRows, nokkelData, nokSel, sankeyBtn>>
    /\ UNCHANGED <<nokChart, csvExportData>>
    /\ UNCHANGED <<pureVars, ioVars>>

\* A radio button of the modal whose label is shown: onchange="updateSankeyChart()".
SetRetning ==
    /\ modal.display = "block"
    /\ \E retning \in {"fra", "til"} :
          /\ retning # modal.retning
          /\ ~(IF retning = "fra" THEN modal.fraDisabled ELSE modal.tilDisabled)
          /\ modal' = [modal EXCEPT !.retning = retning]
          /\ sankeyChart' = updateSankeyChart(nokkelData, nokSel, retning)
    /\ UNCHANGED <<mode, pc, page, nav, koVars, nokRows, nokkelData, nokSel, sankeyBtn>>
    /\ UNCHANGED <<nokChart, csvExportData>>
    /\ UNCHANGED <<pureVars, ioVars>>

\* closeSankeyModal(), and window.onclick outside the modal's content.
CloseSankeyModal ==
    /\ modal.display = "block"
    /\ modal' = [modal EXCEPT !.display = "none"]
    /\ UNCHANGED <<mode, pc, page, nav, koVars, nokRows, nokkelData, nokSel, sankeyBtn, sankeyChart>>
    /\ UNCHANGED <<nokChart, csvExportData>>
    /\ UNCHANGED <<pureVars, ioVars>>

NextKo ==
    \/ Main
    \/ ShowPage("forsinkelser")
    \/ SelectStrekningKo
    \/ SetVisning
    \/ SetXakse
    \/ SetTid
    \/ LiveOpen
    \/ LiveSetStrekninger
    \/ LiveSetDiagram
    \/ LiveSetXAkse
    \/ LiveSetTid
    \/ LiveSetStartDato

Next == NextKo

Spec == Init /\ [][Next]_vars

\* Files in which a location carries the name of the synthetic series.
KoPoolKeys ==
    { Row("Morgen", Dato1, Klokke1, "Alle strekninger", <<7>>, <<4>>, <<1>>),
      Row("Morgen", Dato1, Klokke2, "Drammensveien", <<5>>, <<2>>, <<10>>),
      Row("Morgen", Dato2, Klokke1, "Drammensveien", <<7>>, Null, <<30>>),
      Row("Ettermiddag", Dato2, Klokke2, "Alle strekninger", <<5>>, <<2>>, <<1>>) }

InitKeys == InitWith(KoFiles(KoPoolKeys), {ScenarioLines}, {"static", "live"}) /\ NoCalls

SpecKeys == InitKeys /\ [][Next]_vars

\* The flows: one congestion file, every flow file.
InitFlow ==
    InitWith({<<CHOOSE r \in KoPool : r.bil = <<10>> >>}, NokFiles, {"static"}) /\ NoCalls

NextFlow ==
    \/ Main
    \/ ShowPage("nokkeltall")
    \/ SelectOmradeFra
    \/ SelectOmradeTil
    \/ OpenSankeyModal
    \/ SetRetning
    \/ CloseSankeyModal

SpecFlow == InitFlow /\ [][NextFlow]_vars

InitFlowKeys ==
    InitWith({<<CHOOSE r \in KoPool : r.bil = <<10>> >>}, NokFilesKeys, {"static"}) /\ NoCalls

SpecFlowKeys == InitFlowKeys /\ [][NextFlow]_vars

\* A flow file whose lines differ in time of day and kind of day, with a
\* count that could not be parsed and a quarter of one zone without a count.
NokkelLines ==
    << [Rec("A", "Z", Quarters[1], <<10>>) EXCEPT !.time_of_day = "AM"],
       [Rec("A", "Z", Quarters[2], <<25>>) EXCEPT !.time_of_day = "PM"],
       [Rec("A", "Y", Quarters[2], <<5>>) EXCEPT !.weekday_indicator = "Weekend"],
       [Rec("B", "Z", Quarters[1], Null) EXCEPT !.time_of_day = "AM"],
       [Rec("B", "Z", Quarters[3], <<7>>) EXCEPT !.time_of_day = "PM",
                                                !.weekday_indicator = "Weekend"],
       [Rec("A", "Z", Quarters[3], <<2>>) EXCEPT !.time_of_day = "AM"] >>

\* A congestion file of three lines.
KoLines ==
    << Row("Morgen", Dato2, Klokke1, "Drammensveien", <<7>>, <<4>>, <<1>>),
       Row("Morgen", Dato1, Klokke2, "Slemmestadveien", <<7>>, Null, <<30>>),
       Row("Ettermiddag", Dato1, Klokke1, "Drammensveien", <<5>>, <<2>>, <<10>>) >>

\* The rows kept for the export: the page of the flows with all its widgets
\* and the live page of the congestion.
InitExport ==
    InitWith({KoLines}, {NokkelLines, Reverse(NokkelLines)}, {"static", "live"}) /\ NoCalls

NextExport ==
    \/ Main
    \/ \E p \in {"hjem", "forsinkelser", "nokkeltall"} : ShowPage(p)
    \/ SelectOmradeFra
    \/ SelectOmradeTil
    \/ SetTidNokkel
    \/ SetUkedagNokkel
    \/ LiveOpen
    \/ LiveSetStrekninger
    \/ LiveSetDiagram
    \/ LiveSetXAkse
    \/ LiveSetTid
    \/ LiveSetStartDato

SpecExport == InitExport /\ [][NextExport]_vars

\* The congestion table of the database after a later delivery.
KoLinesLater ==
    KoLines \o << Row("Morgen", Dato2, Klokke2, "Slemmestadveien", <<9>>, <<6>>, <<20>>) >>

\* A delivery to the database, which another program makes.
DbUpdate ==
    /\ mode = "live"
    /\ db.rows # KoLinesLater
    /\ db' = [db EXCEPT !.rows = KoLinesLater]
    /\ UNCHANGED <<mode, pc, page, nav, koVars, flowVars, pureVars, download, files, cache>>

\* The database stops or starts answering.
DbSwitch ==
    /\ mode = "live"
    /\ db' = [db EXCEPT !.up = ~db.up]
    /\ UNCHANGED <<mode, pc, page, nav, koVars, flowVars, pureVars, download, files, cache>>

\* A source file is removed from data/ while the server runs.
RemoveFile ==
    /\ mode = "live"
    /\ \E f \in files : files' = files \ {f}
    /\ UNCHANGED <<mode, pc, page, nav, koVars, flowVars, pureVars, download, db, cache>>

\* The source files: any of them may be missing as a run starts, and the
\* database and the files change while the server runs.
InitFiles ==
    /\ InitData({KoLines}, {NokkelLines}, {"static", "live"})
    /\ files \in SUBSET SourceFiles
    /\ NoCalls

NextFiles ==
    \/ Main
    \/ MainFails
    \/ \E p \in {"forsinkelser", "nokkeltall"} : ShowPage(p)
    \/ LiveOpen
    \/ LiveSetStrekninger
    \/ LiveSetDiagram
    \/ LiveSetXAkse
    \/ LiveSetTid
    \/ LiveSetStartDato
    \/ DbUpdate
    \/ DbSwitch
    \/ RemoveFile

SpecFiles == InitFiles /\ [][NextFiles]_vars

\* A flow file with a zone whose name holds the separator of the export.
CsvKeyLines ==
    << Rec("A;B", "Z", Quarters[1], <<10>>),
       [Rec("A;B", "Z", Quarters[2], <<25>>) EXCEPT !.time_of_day = "PM"],
       [Rec("A", "Y", Quarters[2], <<5>>) EXCEPT !.weekday_indicator = "Weekend"],
       Rec("A", "Z", Quarters[3], <<2>>) >>

\* The download of the page of the flows, for zone names without the
\* separator and for zone names with it.
InitCsv == InitWith({KoLines}, {NokkelLines}, {"static"}) /\ NoCalls

InitCsvKeys == InitWith({KoLines}, {CsvKeyLines}, {"static"}) /\ NoCalls

NextCsv ==
    \/ Main
    \/ ShowPage("nokkeltall")
    \/ SelectOmradeFra
    \/ SelectOmradeTil
    \/ SetTidNokkel
    \/ SetUkedagNokkel
    \/ ExportCSV

SpecCsv == InitCsv /\ [][NextCsv]_vars

SpecCsvKeys == InitCsvKeys /\ [][NextCsv]_vars

-----------------------------------------------------------------------------
(* The smoother taken by itself. *)

\* The entries of a series: missing (null, NaN), whole numbers, and numbers
\* of three decimals on either side of zero.
SmoothCells == {Null, NaN, <<1, 1>>, <<2, 1>>, <<1, 8>>, <<-1, 8>>}

SmoothSeries == UNION {[1..n -> SmoothCells] : n \in 0..MaxLen}

InitSmooth ==
    /\ InitWith({<<CHOOSE r \in KoPool : r.bil = <<10>> >>}, {ScenarioLines}, {"static"})
    /\ smooth \in {[values |-> v, windowSize |-> w, result |-> <<>>, done |-> FALSE] :
                       v \in SmoothSeries, w \in 1..MaxWindow}

\* The call beregnGlidendeGjennomsnitt(values, windowSize).
Smooth ==
    /\ ~smooth.done
    /\ smooth' = [smooth EXCEPT !.result = beregnGlidendeGjennomsnitt(smooth.values,
                                                                       smooth.windowSize),
                                !.done = TRUE]
    /\ UNCHANGED <<mode, pc, page, nav, koVars, flowVars, ioVars>>

NextSmooth == Smooth

SpecSmooth == InitSmooth /\ [][NextSmooth]_vars

-----------------------------------------------------------------------------
(* What the claims speak of, stated over the lines of the file. *)

Buckets == {"Morgen", "Ettermiddag"}

\* The metric columns and the field of an entry each one fills.
Metrics == {<<"ko_min_km", "ko">>, <<"forsinkelser", "forsinkelser">>}

RECURSIVE SumFn(_, _)
SumFn(f, S) ==
    IF S = {} THEN 0
    ELSE LET x == CHOOSE y \in S : TRUE IN f[x] + SumFn(f, S \ {x})

\* The lines of G with a value in col and a weight that counts.
Qualifying(rows, G, col) ==
    {j \in G : rows[j][col] # Null /\ rows[j].bil # Null /\ rows[j].bil[1] > 0}

\* sum(value * bil) and sum(bil) over the lines Q.
WSum(rows, Q, col) == SumFn([j \in Q |-> rows[j][col][1] * rows[j].bil[1]], Q)

WTot(rows, Q) == SumFn([j \in Q |-> rows[j].bil[1]], Q)

\* r is the number n / d (d > 0) rounded to 3 decimals.
IsRounded3(r, n, d) ==
    /\ r # Null
    /\ r[2] > 0
    /\ 1000 % r[2] = 0
    /\ 2000 * Abs(r[1] * d - n * r[2]) <= r[2] * d

\* r is the weighted mean of the group G rounded to 3 decimals, null when no
\* line of G qualifies.
IsWeightedMean3(r, rows, G, col) ==
    LET Q == Qualifying(rows, G, col)
    IN  IF Q = {} THEN r = Null
        ELSE IsRounded3(r, WSum(rows, Q, col), WTot(rows, Q))

\* The lines of bucket tid.
InBucket(rows, tid) == {j \in 1..Len(rows) : rows[j].tid_dag = tid}

\* The label of a line on the axis: its date as dd.mm.yyyy or its clock time.
LabelOf(r, xakse) == IF xakse = "dato" THEN DatoStr(r.dato) ELSE r.klokkeslett

\* The entry e lists the groups of the lines B by key (one label each) and
\* holds, for each group and metric, the weighted mean of the group.
AlleEntryOk(e, rows, B, labels, xakse) ==
    /\ Len(labels) = Len(e.ko)
    /\ Len(labels) = Len(e.forsinkelser)
    /\ {labels[i] : i \in 1..Len(labels)} = {LabelOf(rows[j], xakse) : j \in B}
    /\ \A i \in 1..Len(labels) :
          LET G == {j \in B : LabelOf(rows[j], xakse) = labels[i]}
          IN  \A m \in Metrics : IsWeightedMean3(e[m[2]][i], rows, G, m[1])

\* The rule of C1: each 'Alle strekninger' value is the weighted mean of its
\* group over the qualifying lines, null when there is none.
AlleStrekningerRule ==
    (mode = "static" /\ pc = "generated") =>
        \A tid \in Buckets :
            LET B == InBucket(koRows, tid)
                kd == "Alle strekninger_" \o tid
                kk == "Alle strekninger_" \o tid \o "_klokkeslett"
            IN  B # {} =>
                   /\ kd \in DOMAIN koData
                   /\ kk \in DOMAIN koData
                   /\ AlleEntryOk(koData[kd], koRows, B, koData[kd].datoer, "dato")
                   /\ AlleEntryOk(koData[kk], koRows, B, koData[kk].klokkeslett, "klokkeslett")

\* The lines of G with a congestion index are one (idx 5, vol 10) and one
\* (idx 7, vol 30).
IsExampleGroup(rows, G) ==
    LET V == {j \in G : rows[j].ko_min_km # Null}
    IN  \E a, b \in V :
            /\ V = {a, b}
            /\ rows[a].ko_min_km = <<5>> /\ rows[a].bil = <<10>>
            /\ rows[b].ko_min_km = <<7>> /\ rows[b].bil = <<30>>

\* The 'Alle strekninger' congestion value of every date made of the example
\* lines is v.
ExampleGives(v) ==
    (mode = "static" /\ pc = "generated") =>
        \A tid \in Buckets :
            LET B == InBucket(koRows, tid)
                e == koData["Alle strekninger_" \o tid]
            IN  B # {} =>
                  \A i \in 1..Len(e.datoer) :
                      IsExampleGroup(koRows,
                          {j \in B : DatoStr(koRows[j].dato) = e.datoer[i]})
                          => e.ko[i] = v

\* C1 (amended): in the table aggregate_ko_data returns, for every bucket,
\* every date group and every clock-time group, the 'Alle strekninger' value of
\* a metric is sum(value * bil) / sum(bil) over exactly the lines of the group
\* whose value is non-null and whose bil is non-null and > 0, rounded to 3
\* decimals, and null when no line of the group qualifies; the lines
\* (idx 5, vol 10) and (idx 7, vol 30) of one date give 6.5 = 13/2.
C1_AlleStrekningerWeightedMean == AlleStrekningerRule /\ ExampleGives(<<13, 2>>)

\* C1 as written: the same rule, with the lines (idx 5, vol 10) and
\* (idx 7, vol 30) of one date giving 5.75 = 23/4.
C1_AsWritten == AlleStrekningerRule /\ ExampleGives(<<23, 4>>)

\* The example lines and a line of weight 0 on one morning: the date's
\* congestion value is 13/2.
C1_Witness ==
    /\ mode = "static"
    /\ pc = "generated"
    /\ Len(koRows) = 3
    /\ \A j \in 1..3 : koRows[j].tid_dag = "Morgen" /\ koRows[j].dato = koRows[1].dato
    /\ IsExampleGroup(koRows, 1..3)
    /\ \E k \in 1..3 : koRows[k].bil = <<0>>
    /\ koData["Alle strekninger_Morgen"].ko = <<(<<13, 2>>)>>

-----------------------------------------------------------------------------
(* The live chart, stated over the lines of the file. *)

\* A chart of the live server is on the screen.
LiveChart == mode = "live" /\ liveOut.status = "chart"

LiveOverDato == liveSel.x_akse_valg = "Over dato"

\* The lines the widgets let through: the bucket and, over dato, the start date.
LiveRows ==
    {j \in 1..Len(koRows) :
        /\ koRows[j].tid_dag = liveSel.tid_valg
        /\ LiveOverDato => ~DatoLess(koRows[j].dato, liveSel.start_dato)}

\* The lines of the group a row p of df_plot stands for (all locations).
LiveGroup(p) ==
    {j \in LiveRows : IF LiveOverDato THEN koRows[j].dato = p.dato
                                      ELSE koRows[j].klokkeslett = p.klokkeslett}

\* A missing number: pd.NA / None or NaN.
IsNull(y) == y = Null \/ y = NaN

\* C2: in the live server's chart of all locations, on both axes, the value of
\* a group is sum(value * bil) / sum(bil) over the lines with bil > 0 only, and
\* a group whose lines all have bil <= 0 or missing shows null (no number, no
\* result of a division by zero).
C2_LiveWeightsPositive ==
    (LiveChart /\ liveSel.valgte_strekninger = {}) =>
        \A i \in 1..Len(liveOut.df_plot) :
            LET p == liveOut.df_plot[i]
                Q == Qualifying(koRows, LiveGroup(p), liveOut.y_col)
            IN  IF Q = {} THEN IsNull(p.y)
                ELSE p.y = Div(WSum(koRows, Q, liveOut.y_col), WTot(koRows, Q))

\* Every line of G has weight 1 and a value in col.
AllOnes(rows, G, col) ==
    G # {} /\ \A j \in G : rows[j].bil = <<1>> /\ rows[j][col] # Null

\* sum(value) over the lines G.
VSum(rows, G, col) == SumFn([j \in G |-> rows[j][col][1]], G)

\* Each value of the entry e whose group has weights 1 throughout is the
\* arithmetic mean of the group (to the 3 decimals of the table).
AllOnesEntryOk(e, rows, B, labels, xakse) ==
    \A i \in 1..Len(labels) :
        LET G == {j \in B : LabelOf(rows[j], xakse) = labels[i]}
        IN  \A m \in Metrics :
                AllOnes(rows, G, m[1]) =>
                    IsRounded3(e[m[2]][i], VSum(rows, G, m[1]), Cardinality(G))

\* C3: for every non-empty group in which every line has bil = 1 and a
\* non-null value, the weighted mean of the aggregator (static table, to its
\* 3 decimals, and live chart, both axes) is the arithmetic mean of the values.
C3_UnitWeightsGiveMean ==
    /\ (mode = "static" /\ pc = "generated") =>
          \A tid \in Buckets :
              LET B == InBucket(koRows, tid)
                  ed == koData["Alle strekninger_" \o tid]
                  ek == koData["Alle strekninger_" \o tid \o "_klokkeslett"]
              IN  B # {} =>
                     /\ AllOnesEntryOk(ed, koRows, B, ed.datoer, "dato")
                     /\ AllOnesEntryOk(ek, koRows, B, ek.klokkeslett, "klokkeslett")
    /\ (LiveChart /\ liveSel.valgte_strekninger = {}) =>
          \A i \in 1..Len(liveOut.df_plot) :
              LET p == liveOut.df_plot[i]
                  G == LiveGroup(p)
              IN  AllOnes(koRows, G, liveOut.y_col) =>
                      p.y = Div(VSum(koRows, G, liveOut.y_col), Cardinality(G))

\* The live chart over dato shows 6 for a date whose two lines have weight 1
\* and the values 7 and 5.
C3_Witness ==
    /\ LiveChart
    /\ liveSel.valgte_strekninger = {}
    /\ LiveOverDato
    /\ \E i \in 1..Len(liveOut.df_plot) :
          LET G == LiveGroup(liveOut.df_plot[i])
          IN  /\ AllOnes(koRows, G, liveOut.y_col)
              /\ {koRows[j][liveOut.y_col] : j \in G} = {<<5>>, <<7>>}
              /\ liveOut.df_plot[i].y = <<6, 1>>

-----------------------------------------------------------------------------
(* The medians of the single locations. *)

\* The lines of G with a value in col.
Present(rows, G, col) == {j \in G : rows[j][col] # Null}

\* The k-th smallest value of the lines V (1 <= k <= the number of lines).
KthSmallest(rows, V, col, k) ==
    CHOOSE x \in {rows[j][col][1] : j \in V} :
        /\ Cardinality({j \in V : rows[j][col][1] < x}) < k
        /\ k <= Cardinality({j \in V : rows[j][col][1] <= x})

\* Twice the median of the values of the lines V (V not empty).
TwiceMedian(rows, V, col) ==
    LET n == Cardinality(V)
    IN  KthSmallest(rows, V, col, (n + 1) \div 2) + KthSmallest(rows, V, col, n \div 2 + 1)

\* r is the median of the non-null values of the group G to 3 decimals, null
\* when the group has no non-null value.
IsMedian3(r, rows, G, col) ==
    LET V == Present(rows, G, col)
    IN  IF V = {} THEN r = Null ELSE IsRounded3(r, TwiceMedian(rows, V, col), 2)

\* The entry e lists the groups of the lines B by key (one label each, also
\* for a group without values) and holds the median of each group and metric.
StopEntryOk(e, rows, B, labels, xakse) ==
    /\ Len(labels) = Len(e.ko)
    /\ Len(labels) = Len(e.forsinkelser)
    /\ {labels[i] : i \in 1..Len(labels)} = {LabelOf(rows[j], xakse) : j \in B}
    /\ \A i \in 1..Len(labels) :
          LET G == {j \in B : LabelOf(rows[j], xakse) = labels[i]}
          IN  \A m \in Metrics : IsMedian3(e[m[2]][i], rows, G, m[1])

\* The names of the single locations of the file.
StopNames(rows) == {rows[j].stop_name : j \in 1..Len(rows)}

\* The two keys of a single location in a bucket.
StopKeys(rows) ==
    {stop \o "_" \o tid : stop \in StopNames(rows), tid \in Buckets}
        \cup {stop \o "_" \o tid \o "_klokkeslett" : stop \in StopNames(rows), tid \in Buckets}

\* The medians of the static table.
StaticMedians ==
    (mode = "static" /\ pc = "generated") =>
        \A tid \in Buckets : \A stop \in StopNames(koRows) :
            LET B == {j \in InBucket(koRows, tid) : koRows[j].stop_name = stop}
                kd == stop \o "_" \o tid
                kk == stop \o "_" \o tid \o "_klokkeslett"
            IN  IF B = {} THEN kd \notin DOMAIN koData /\ kk \notin DOMAIN koData
                ELSE /\ kd \in DOMAIN koData
                     /\ kk \in DOMAIN koData
                     /\ StopEntryOk(koData[kd], koRows, B, koData[kd].datoer, "dato")
                     /\ StopEntryOk(koData[kk], koRows, B, koData[kk].klokkeslett, "klokkeslett")

\* The orders of the lines of a file that differ from it by the exchange of
\* two neighbouring lines. Every order of a file is reached by such exchanges,
\* and the files of every order are initial states: a result that no exchange
\* changes in any state is the same for every order of the lines.
NeighbourSwaps(rows) ==
    {[i \in 1..Len(rows) |-> IF i = k THEN k + 1 ELSE IF i = k + 1 THEN k ELSE i] :
        k \in 1..(Len(rows) - 1)}

\* The table of the single locations is the same for every order of the lines
\* (stated where the page is first loaded: the table never changes later).
StaticMediansAnyOrder ==
    (mode = "static" /\ pc = "generated" /\ koChart = NoChart) =>
        \A perm \in NeighbourSwaps(koRows) :
            LET other == aggregate_ko_data(Permuted(koRows, perm))
            IN  \A k \in StopKeys(koRows) :
                    /\ k \in DOMAIN other <=> k \in DOMAIN koData
                    /\ k \in DOMAIN koData => other[k] = koData[k]

\* The rows of the live chart of the selected locations: one per group with a
\* value, holding the median of the group.
LiveMedians ==
    (LiveChart /\ liveSel.valgte_strekninger # {}) =>
        LET col == liveOut.y_col
            B == {j \in LiveRows : /\ koRows[j].stop_name \in liveSel.valgte_strekninger
                                   /\ koRows[j][col] # Null}
            keyOf(r) == <<IF LiveOverDato THEN r.dato ELSE r.klokkeslett, r.stop_name>>
            plotKey(p) == <<IF LiveOverDato THEN p.dato ELSE p.klokkeslett, p.strekning>>
            plot == liveOut.df_plot
        IN  /\ {plotKey(plot[i]) : i \in 1..Len(plot)} = {keyOf(koRows[j]) : j \in B}
            /\ \A i, j \in 1..Len(plot) : plotKey(plot[i]) = plotKey(plot[j]) => i = j
            /\ \A i \in 1..Len(plot) :
                  LET G == {j \in B : keyOf(koRows[j]) = plotKey(plot[i])}
                  IN  plot[i].y = Div(TwiceMedian(koRows, G, col), 2)

\* The live chart is the same for every order of the lines.
LiveAnyOrder ==
    LiveChart =>
        \A perm \in NeighbourSwaps(koRows) :
            page_forsinkelser(load_forsinkelser_data(Permuted(koRows, perm)), liveSel) = liveOut

\* C4: the median of a single location per date and per clock time is the
\* median of the non-null values of its group, is the same for every order of
\* the lines of the file, and is null for a group without a non-null value,
\* whose label the static table still lists (the live chart has no row for it).
C4_GroupedMedian ==
    /\ StaticMedians
    /\ StaticMediansAnyOrder
    /\ LiveMedians
    /\ LiveAnyOrder

\* The static table holds the median 6 of the values 7 and 5 of one date of a
\* location and a null under the label of a date without a value.
C4_Witness ==
    /\ mode = "static"
    /\ pc = "generated"
    /\ "Drammensveien_Morgen" \in DOMAIN koData
    /\ "Slemmestadveien_Morgen" \in DOMAIN koData
    /\ koData["Drammensveien_Morgen"].ko = <<(<<6, 1>>)>>
    /\ koData["Slemmestadveien_Morgen"].ko = <<Null>>
    /\ koData["Slemmestadveien_Morgen"].datoer = <<DatoStr(Dato1)>>
    /\ koRows[1].ko_min_km = <<7>>
    /\ koRows[2].ko_min_km = <<5>>

-----------------------------------------------------------------------------
(* Which aggregate a chart shows. *)

\* The metric column of a 'visning' of the static page.
ColOf(visning) == IF visning = "ko" THEN "ko_min_km" ELSE "forsinkelser"

\* The chart of the static page was drawn for the location chart.title[2]: its
\* values are weighted means over all locations for 'Alle strekninger' and
\* medians of the one location otherwise.
StaticChartAggregate ==
    (mode = "static" /\ koChart.drawn) =>
        LET col == ColOf(koChart.title[1])
            stop == koChart.title[2]
            B == InBucket(koRows, koChart.title[3])
            group(i) == {j \in B : IF koChart.type = "scatter"
                                   THEN DatoStr(koRows[j].dato) = koChart.x[i]
                                   ELSE koRows[j].klokkeslett = koChart.x[i]}
        IN  /\ Len(koChart.x) = Len(koChart.y)
            /\ \A i \in 1..Len(koChart.x) :
                  IF stop = "Alle strekninger"
                  THEN IsWeightedMean3(koChart.y[i], koRows, group(i), col)
                  ELSE IsMedian3(koChart.y[i], koRows,
                                 {j \in group(i) : koRows[j].stop_name = stop}, col)

\* The live chart: with no location selected every row is 'Alle strekninger'
\* and holds sum(value * bil) / sum(bil) of its group over the lines that have
\* a value and a weight; with locations selected every row is one of them and
\* holds the median of that location's group.
LiveChartAggregate ==
    LiveChart =>
        LET col == liveOut.y_col
            plot == liveOut.df_plot
        IN  \A i \in 1..Len(plot) :
                IF liveSel.valgte_strekninger = {}
                THEN /\ plot[i].strekning = "Alle strekninger"
                     /\ LET Q == {j \in LiveGroup(plot[i]) :
                                     koRows[j][col] # Null /\ koRows[j].bil # Null}
                        IN  IF Q = {} THEN plot[i].y = Null
                            ELSE plot[i].y = Div(WSum(koRows, Q, col), WTot(koRows, Q))
                ELSE /\ plot[i].strekning \in liveSel.valgte_strekninger
                     /\ LET G == {j \in LiveGroup(plot[i]) :
                                     /\ koRows[j].stop_name = plot[i].strekning
                                     /\ koRows[j][col] # Null}
                        IN  plot[i].y = Div(TwiceMedian(koRows, G, col), 2)

\* C5: in both delivery modes and on both axes the series of all locations is
\* the volume-weighted mean across all locations and the series of a single
\* location is the median of that location, whatever the widgets select (the
\* weights that count are those the mode's own weighted average lets through).
C5_MeanForAllMedianForOne == StaticChartAggregate /\ LiveChartAggregate

\* The static bar chart of one location shows the median 6 of a clock time
\* whose weighted mean over all locations is 5.182.
C5_Witness ==
    /\ mode = "static"
    /\ koChart.drawn
    /\ koChart.type = "bar"
    /\ koChart.title = <<"ko", "Drammensveien", "Morgen">>
    /\ koChart.y[1] = <<6, 1>>
    /\ koData["Alle strekninger_Morgen_klokkeslett"].ko[1] = <<2591, 500>>

-----------------------------------------------------------------------------
(* The order of the labels. *)

\* The date of a label "dd.mm.yyyy".
DatoOfLabel(s) == <<s[3], s[2], s[1]>>

\* The minutes since midnight of a label "HH:MM".
MinutesOfLabel(k) == 60 * (10 * k[1] + k[2]) + 10 * k[3] + k[4]

\* The labels are in strictly ascending order of time.
Ascending(labels, isDato) ==
    \A i, j \in 1..Len(labels) :
        i < j => IF isDato THEN LexLess(DatoOfLabel(labels[i]), DatoOfLabel(labels[j]))
                           ELSE MinutesOfLabel(labels[i]) < MinutesOfLabel(labels[j])

\* The lines of the bucket and location a key of the static table stands for.
LinesOfKey(tid, stop) ==
    {j \in InBucket(koRows, tid) : stop = "Alle strekninger" \/ koRows[j].stop_name = stop}

\* Every entry of the static table lists each group of its lines once, in
\* ascending order.
StaticLabelsOrdered ==
    (mode = "static" /\ pc = "generated") =>
        \A tid \in Buckets : \A stop \in StopNames(koRows) \cup {"Alle strekninger"} :
            LET kd == stop \o "_" \o tid
                kk == stop \o "_" \o tid \o "_klokkeslett"
                B == LinesOfKey(tid, stop)
            IN  B # {} =>
                   /\ Ascending(koData[kd].datoer, TRUE)
                   /\ {koData[kd].datoer[i] : i \in 1..Len(koData[kd].datoer)}
                          = {DatoStr(koRows[j].dato) : j \in B}
                   /\ Ascending(koData[kk].klokkeslett, FALSE)
                   /\ {koData[kk].klokkeslett[i] : i \in 1..Len(koData[kk].klokkeslett)}
                          = {koRows[j].klokkeslett : j \in B}

\* The labels the static chart shows are in ascending order.
StaticChartOrdered ==
    (mode = "static" /\ koChart.drawn) => Ascending(koChart.x, koChart.type = "scatter")

\* The labels of each series of the live chart are in ascending order, one per
\* group of the series.
LiveLabelsOrdered ==
    LiveChart =>
        LET plot == liveOut.df_plot
            label(p) == IF LiveOverDato THEN p.dato_str ELSE p.klokkeslett
        IN  \A name \in {plot[i].strekning : i \in 1..Len(plot)} :
                LET series == SelectSeq(plot, LAMBDA p : p.strekning = name)
                    B == {j \in LiveRows :
                             /\ koRows[j][liveOut.y_col] # Null
                             /\ name = "Alle strekninger" \/ koRows[j].stop_name = name}
                IN  /\ Ascending([i \in 1..Len(series) |-> label(series[i])], LiveOverDato)
                    /\ {label(series[i]) : i \in 1..Len(series)}
                          = {IF LiveOverDato THEN DatoStr(koRows[j].dato)
                                             ELSE koRows[j].klokkeslett : j \in B}

\* C6: whatever the order of the lines of the file, the labels of every
\* aggregated series (static table and chart, live chart) come in
\* chronological order on the date axis and in clock order on the clock-time
\* axis, one label per distinct group.
C6_LabelsInTimeOrder == StaticLabelsOrdered /\ StaticChartOrdered /\ LiveLabelsOrdered

\* The file has 1 February before 15 January and 16:00 before 07:30; the
\* table lists 15.01.2024 before 01.02.2024 and 07:30 before 16:00.
C6_Witness ==
    /\ mode = "static"
    /\ pc = "generated"
    /\ Len(koRows) >= 2
    /\ koRows[1].dato = Dato2 /\ koRows[1].klokkeslett = Klokke2
    /\ koRows[2].dato = Dato1 /\ koRows[2].klokkeslett = Klokke1
    /\ koData["Alle strekninger_Morgen"].datoer = <<DatoStr(Dato1), DatoStr(Dato2)>>
    /\ koData["Alle strekninger_Morgen_klokkeslett"].klokkeslett = <<Klokke1, Klokke2>>

-----------------------------------------------------------------------------
(* The keys of the static table. *)

\* The (location, bucket, axis) triples of the file: in every bucket with
\* lines, the synthetic series of all locations and each location with a line,
\* on both axes.
Triples(rows) ==
    {<<loc, tid, axis>> :
        loc \in {<<"alle">>} \cup {<<"stop", n>> : n \in StopNames(rows)},
        tid \in Buckets, axis \in {"dato", "klokkeslett"}}

HasLines(rows, t) ==
    \E j \in InBucket(rows, t[2]) : t[1] = <<"alle">> \/ rows[j].stop_name = t[1][2]

\* C7: the static table stores distinct (location, bucket, axis) triples under
\* distinct keys, so it has one entry per triple and none is overwritten, and
\* the entries under 'Alle strekninger_<bucket>[_klokkeslett]' are the
\* weighted means over all locations, whatever the names of the locations.
C7_KeysDistinct ==
    /\ (mode = "static" /\ pc = "generated") =>
          Cardinality(DOMAIN koData)
              = Cardinality({t \in Triples(koRows) : HasLines(koRows, t)})
    /\ AlleStrekningerRule

-----------------------------------------------------------------------------
(* The flow summary, stated over the lines of the flow file. *)

\* The integer a quarter "YYYY-Q" gives when its separator is stripped.
QuarterInt(kvartal) == 10 * kvartal[1] + kvartal[2]

DistinctQuarters(rows) == {rows[j].kvartal : j \in 1..Len(rows)}

\* The last 4 distinct quarters of the file (all of them if there are fewer).
LastFour(rows) ==
    {q \in DistinctQuarters(rows) :
        Cardinality({p \in DistinctQuarters(rows) : QuarterInt(p) > QuarterInt(q)}) < 4}

\* The modal is shown: the summary on the screen is that of the selection and
\* direction of the state.
Summarized == modal.display = "block"

\* The lines that match the selected zones in the direction of the modal.
Matching ==
    {j \in 1..Len(nokRows) :
        IF modal.retning = "fra" THEN nokRows[j].delomrade_fra \in nokSel.fra
                                 ELSE nokRows[j].delomrade_til \in nokSel.til}

\* The lines the summary is to use.
Used == {j \in Matching : nokRows[j].kvartal \in LastFour(nokRows)}

PairOf(r) == <<r.delomrade_fra, r.delomrade_til>>

PairsUsed == {PairOf(nokRows[j]) : j \in Used}

\* The trips of the lines of a pair (a missing count adds nothing).
PairSum(pair) ==
    LET S == {j \in Used : PairOf(nokRows[j]) = pair}
    IN  SumFn([j \in S |-> IF nokRows[j].reiser = Null THEN 0 ELSE nokRows[j].reiser[1]], S)

\* The list of pairs the summarizer returned.
Returned == IF sankeyChart.status = "chart" THEN sankeyChart.topp10 ELSE <<>>

ReturnedPair(i) == <<Returned[i].fra, Returned[i].til>>

\* C8: for every flow file, direction and selection the summarizer returns at
\* most 10 pairs, in non-increasing order of their summed trips, and every
\* pair it leaves out has a sum no greater than the smallest one returned.
C8_TopTenSorted ==
    Summarized =>
        /\ Len(Returned) <= 10
        /\ \A i, j \in 1..Len(Returned) : i < j => Returned[i].reiser >= Returned[j].reiser
        /\ \A pair \in PairsUsed :
              (\A i \in 1..Len(Returned) : ReturnedPair(i) # pair) =>
                  /\ Returned # <<>>
                  /\ PairSum(pair) <= Returned[Len(Returned)].reiser

\* More than 10 pairs match: 10 are returned, their sums differ, and a pair
\* with trips is left out.
C8_Witness ==
    /\ Summarized
    /\ Cardinality(PairsUsed) > 10
    /\ Len(Returned) = 10
    /\ Returned[1].reiser > Returned[10].reiser
    /\ \E pair \in PairsUsed :
          /\ \A i \in 1..10 : ReturnedPair(i) # pair
          /\ PairSum(pair) > 0

\* C9: the quarters the summarizer keeps are the last 4 distinct quarters of
\* the whole file by the integer of the quarter (all of them if there are
\* fewer than 4), whatever the order of the lines, and every count it returns
\* is made of lines of those quarters only.
C9_LastFourQuarters ==
    /\ pc = "generated" =>
          LET siste == SisteKvartaler(nokkelData.kvartaler)
          IN  {siste[i] : i \in 1..Len(siste)} = LastFour(nokRows)
    /\ Summarized =>
          \A i \in 1..Len(Returned) :
              /\ ReturnedPair(i) \in PairsUsed
              /\ Returned[i].reiser = PairSum(ReturnedPair(i))

\* A file of more than 4 quarters whose lines are not in chronological order
\* and which has matching lines with trips in a quarter that is left out.
C9_Witness ==
    /\ Summarized
    /\ Returned # <<>>
    /\ Cardinality(DistinctQuarters(nokRows)) > 4
    /\ QuarterInt(nokRows[1].kvartal) > QuarterInt(nokRows[Len(nokRows)].kvartal)
    /\ \E j \in Matching \ Used : nokRows[j].reiser # Null /\ nokRows[j].reiser[1] > 0

\* C10: in direction 'fra' (resp. 'til') the summary holds one entry for each
\* (origin, destination) pair of the lines of the last 4 quarters whose origin
\* (resp. destination) is selected, up to the cut at 10, with the sum of the
\* trips of exactly those lines; two pairs never share an entry; the lines
\* A, B, C to Z with 100, 50, 10 trips and 'til' Z give
\* [(A,Z,100), (B,Z,50), (C,Z,10)].
C10_PairSums ==
    Summarized =>
        /\ \A i \in 1..Len(Returned) :
              /\ ReturnedPair(i) \in PairsUsed
              /\ Returned[i].reiser = PairSum(ReturnedPair(i))
        /\ \A i, j \in 1..Len(Returned) : ReturnedPair(i) = ReturnedPair(j) => i = j
        /\ Len(Returned) = Min2(10, Cardinality(PairsUsed))
        /\ (/\ modal.retning = "til"
            /\ nokSel.til = {"Z"}
            /\ {<<pair, PairSum(pair)>> : pair \in PairsUsed}
                  = {<<(<<"A", "Z">>), 100>>, <<(<<"B", "Z">>), 50>>, <<(<<"C", "Z">>), 10>>})
           => Returned = << [fra |-> "A", til |-> "Z", reiser |-> 100],
                            [fra |-> "B", til |-> "Z", reiser |-> 50],
                            [fra |-> "C", til |-> "Z", reiser |-> 10] >>

-----------------------------------------------------------------------------
(* Ties of the summary. *)

\* The first line of the file among those the summary uses that holds the pair.
FirstLine(pair) ==
    CHOOSE j \in Used : /\ PairOf(nokRows[j]) = pair
                        /\ \A k \in Used : PairOf(nokRows[k]) = pair => j <= k

\* C11: pairs with equal summed trips stand in the summary in the order in
\* which the lines of the file first name them, and of the pairs that tie with
\* the last entry at the cut at 10 those first named are the ones kept.
C11_TiesByEncounterOrder ==
    Summarized =>
        /\ \A i, j \in 1..Len(Returned) :
              (i < j /\ Returned[i].reiser = Returned[j].reiser) =>
                  FirstLine(ReturnedPair(i)) < FirstLine(ReturnedPair(j))
        /\ \A pair \in PairsUsed :
              (\A i \in 1..Len(Returned) : ReturnedPair(i) # pair) =>
                  \A i \in 1..Len(Returned) :
                      Returned[i].reiser = PairSum(pair) =>
                          FirstLine(ReturnedPair(i)) < FirstLine(pair)

\* Two pairs of the summary tie, and a pair that ties with the last entry is
\* cut, in a file whose lines are not in their generated order.
C11_Witness ==
    /\ Summarized
    /\ Len(Returned) = 10
    /\ \E i \in 1..9 : Returned[i].reiser = Returned[i + 1].reiser
    /\ \E pair \in PairsUsed :
          /\ \A i \in 1..10 : ReturnedPair(i) # pair
          /\ PairSum(pair) = Returned[10].reiser
    /\ QuarterInt(nokRows[1].kvartal) > QuarterInt(nokRows[Len(nokRows)].kvartal)

-----------------------------------------------------------------------------
(* The flow diagram. *)

Origins == {Returned[i].fra : i \in 1..Len(Returned)}

Destinations == {Returned[i].til : i \in 1..Len(Returned)}

\* C12: the nodes of the flow diagram are the distinct origins of the pairs of
\* the summary, each once, followed by their distinct destinations, each once;
\* the source of every link is the node of its origin among the former and its
\* target the node of its destination among the latter (source < number of
\* left nodes <= target), so that no link joins a node to itself.
C12_TwoColumns ==
    (Summarized /\ sankeyChart.status = "chart") =>
        LET label == sankeyChart.label
            nLeft == Cardinality(Origins)
            nRight == Cardinality(Destinations)
        IN  /\ Len(label) = nLeft + nRight
            /\ {label[x] : x \in 1..nLeft} = Origins
            /\ {label[x] : x \in (nLeft + 1)..Len(label)} = Destinations
            /\ Len(sankeyChart.source) = Len(Returned)
            /\ Len(sankeyChart.target) = Len(Returned)
            /\ \A i \in 1..Len(Returned) :
                  LET s == sankeyChart.source[i]
                      g == sankeyChart.target[i]
                  IN  /\ 0 <= s /\ s < nLeft
                      /\ nLeft <= g /\ g < nLeft + nRight
                      /\ label[s + 1] = Returned[i].fra
                      /\ label[g + 1] = Returned[i].til
                      /\ s # g

\* A diagram in which a zone is both an origin and a destination and a link
\* leads from a zone to the same zone.
C12_Witness ==
    /\ Summarized
    /\ sankeyChart.status = "chart"
    /\ Origins \cap Destinations # {}
    /\ \E i \in 1..Len(Returned) :
          /\ Returned[i].fra = Returned[i].til
          /\ sankeyChart.source[i] < sankeyChart.target[i]
    /\ Len(sankeyChart.label) = 4

-----------------------------------------------------------------------------
(* The smoother. *)

\* The entries of the series are fractions of the denominator 8.
InEighths(v) == (8 * v[1]) \div v[2]

\* The window of entry i (counted from 1) of a series of length n.
WindowOf(i, n, w) == {j \in 1..n : j >= i - (w \div 2) /\ j <= i + (w \div 2)}

\* The entries of the window that hold a number.
ValuesOf(values, W) == {j \in W : values[j] # Null /\ values[j] # NaN}

\* r is the number of two decimals nearest to n / d (d > 0), the upper one of
\* two that are equally near.
IsNearest2(r, n, d) ==
    \E k \in -100..300 :
        /\ r = Div(k, 100)
        /\ (2 * k - 1) * d <= 200 * n
        /\ 200 * n < (2 * k + 1) * d

\* The shape of the result: as long as the series, and null exactly where the
\* window holds no number.
SmoothShape ==
    smooth.done =>
        /\ Len(smooth.result) = Len(smooth.values)
        /\ \A i \in 1..Len(smooth.values) :
              LET V == ValuesOf(smooth.values, WindowOf(i, Len(smooth.values), smooth.windowSize))
              IN  smooth.result[i] = Null <=> V = {}

\* C13: the result is as long as the series; entry i is the average of the
\* entries that hold a number among those at most floor(w/2) places from i,
\* rounded to two decimals (a tie upwards), and null exactly when none does.
C13_CenteredAverage ==
    /\ SmoothShape
    /\ smooth.done =>
          \A i \in 1..Len(smooth.values) :
              LET V == ValuesOf(smooth.values, WindowOf(i, Len(smooth.values), smooth.windowSize))
                  s == SumFn([j \in V |-> InEighths(smooth.values[j])], V)
              IN  V # {} => IsNearest2(smooth.result[i], s, 8 * Cardinality(V))

\* C13 as stated: entry i is the average itself.
C13_AsWritten ==
    /\ SmoothShape
    /\ smooth.done =>
          \A i \in 1..Len(smooth.values) :
              LET V == ValuesOf(smooth.values, WindowOf(i, Len(smooth.values), smooth.windowSize))
                  s == SumFn([j \in V |-> InEighths(smooth.values[j])], V)
              IN  V # {} => smooth.result[i] = Div(s, 8 * Cardinality(V))

\* A series of 4 entries smoothed with the window 3: a window clipped at
\* either end, a missing entry that is skipped, a window without a number,
\* and an average of more than two decimals.
C13_Witness ==
    /\ smooth.done
    /\ smooth.windowSize = 3
    /\ smooth.values = << <<1, 1>>, <<2, 1>>, <<2, 1>>, Null >>
    /\ smooth.result = << <<3, 2>>, <<167, 100>>, <<2, 1>>, <<2, 1>> >>

\* C14: with the window 1 every entry that holds a number is returned rounded
\* to two decimals, hence unchanged if it has no more than two, and every
\* missing entry is returned as null.
C14_WindowOne ==
    (smooth.done /\ smooth.windowSize = 1) =>
        /\ Len(smooth.result) = Len(smooth.values)
        /\ \A i \in 1..Len(smooth.values) :
              LET v == smooth.values[i]
              IN  IF v = Null \/ v = NaN THEN smooth.result[i] = Null
                  ELSE /\ IsNearest2(smooth.result[i], v[1], v[2])
                       /\ (100 * v[1]) % v[2] = 0 => smooth.result[i] = v

\* C14 as stated: with the window 1 the series is returned unchanged.
C14_AsWritten ==
    (smooth.done /\ smooth.windowSize = 1) =>
        /\ Len(smooth.result) = Len(smooth.values)
        /\ \A i \in 1..Len(smooth.values) :
              LET v == smooth.values[i]
              IN  IF v = Null \/ v = NaN THEN smooth.result[i] = Null
                  ELSE smooth.result[i] = v

\* The window 1 on a series with a missing entry, whole numbers and a number
\* of three decimals.
C14_Witness ==
    /\ smooth.done
    /\ smooth.windowSize = 1
    /\ smooth.values = << <<2, 1>>, Null, <<1, 8>>, <<1, 1>> >>
    /\ smooth.result = << <<2, 1>>, Null, <<13, 100>>, <<1, 1>> >>

\* The rows that the traces of a flow chart display: of each line (a trace
\* of points and, after it, a trace of the trend) one row per quarter.
RECURSIVE DisplayedRows(_)
DisplayedRows(traces) ==
    IF Len(traces) < 2 THEN <<>>
    ELSE LET n == Len(traces)
             raw == traces[n - 1]
             trend == traces[n]
         IN  DisplayedRows(SubSeq(traces, 1, n - 2))
                \o [i \in 1..Len(raw.x) |->
                       [kvartal |-> raw.x[i], radata |-> raw.y[i], trend |-> trend.y[i]]]

\* The rows kept for the export without the names of their zones.
ExportedRows(rows) ==
    [i \in 1..Len(rows) |->
        [kvartal |-> rows[i].kvartal, radata |-> rows[i].radata, trend |-> rows[i].trend]]

\* The pairs of zone names of the rows kept for the export, in their order.
ExportedGroups(rows) ==
    Unique([i \in 1..Len(rows) |-> <<rows[i].omrade_fra, rows[i].omrade_til>>])

\* C15: whatever filters were changed and pages shown, the rows kept for the
\* export of the static page are the raw and trend series of the flow chart
\* drawn last, line by line and quarter by quarter (none before a chart is
\* drawn, one pair of zone names per line that has quarters), and on the
\* live page export_df holds the rows of the plotted df_plot in their order.
C15_ExportMirrorsChart ==
    /\ mode = "static" =>
        IF nokChart.drawn
        THEN /\ ExportedRows(csvExportData) = DisplayedRows(nokChart.traces)
             /\ Len(ExportedGroups(csvExportData))
                    = Cardinality({k \in 1..(Len(nokChart.traces) \div 2) :
                                      nokChart.traces[2 * k].x # <<>>})
        ELSE csvExportData = <<>>
    /\ (mode = "live" /\ liveOut # NoRun /\ liveOut.status = "chart") =>
        /\ Len(liveOut.export_df) = Len(liveOut.df_plot)
        /\ \A i \in 1..Len(liveOut.df_plot) :
              /\ liveOut.export_df[i].strekning = liveOut.df_plot[i].strekning
              /\ liveOut.export_df[i].y = liveOut.df_plot[i].y
              /\ liveOut.export_df[i].x
                    = IF liveOut.type = "line" THEN liveOut.df_plot[i].dato_str
                                               ELSE liveOut.df_plot[i].klokkeslett

\* Two lines are drawn, one of them with a trend that differs from its raw
\* values, and the reader has left the page of the flows after that.
C15_Witness ==
    /\ mode = "static"
    /\ page = "forsinkelser"
    /\ nokChart.drawn
    /\ Len(nokChart.traces) = 4
    /\ \E i \in 1..Len(csvExportData) : csvExportData[i].radata # csvExportData[i].trend

\* A text cut at every character sep: s.split(sep).
Split(s, sep) ==
    LET at == {i \in 1..Len(s) : SubSeq(s, i, i) = sep}
        cut(k) == IF k = 0 THEN 0
                  ELSE IF k > Cardinality(at) THEN Len(s) + 1
                  ELSE CHOOSE i \in at : Cardinality({j \in at : j < i}) = k - 1
    IN  [k \in 1..(Cardinality(at) + 1) |-> SubSeq(s, cut(k - 1) + 1, cut(k) - 1)]

\* The value of a character as a decimal digit, -1 for any other character.
DigitValue(c) ==
    IF \E d \in 1..10 : DigitChars[d] = c
    THEN (CHOOSE d \in 1..10 : DigitChars[d] = c) - 1
    ELSE -1

\* The natural number written by a text of digits, -1 for any other text.
RECURSIVE ReadDigits(_)
ReadDigits(s) ==
    IF Len(s) = 0 THEN -1
    ELSE LET last == DigitValue(SubSeq(s, Len(s), Len(s)))
         IN  IF last < 0 THEN -1
             ELSE IF Len(s) = 1 THEN last
             ELSE LET front == ReadDigits(SubSeq(s, 1, Len(s) - 1))
                  IN  IF front < 0 THEN -1 ELSE 10 * front + last

Pow10(k) == IF k = 0 THEN 1 ELSE IF k = 1 THEN 10 ELSE IF k = 2 THEN 100 ELSE 1000

\* A cell read with the comma as decimal mark: null for the empty cell, a
\* number for  [-]digits[,digits]  of at most three decimals, no number for
\* any other text.
ReadCell(text) ==
    IF text = "" THEN [numeric |-> TRUE, value |-> Null]
    ELSE LET neg == SubSeq(text, 1, 1) = "-"
             body == IF neg THEN SubSeq(text, 2, Len(text)) ELSE text
             parts == Split(body, ",")
             whole == ReadDigits(parts[1])
             frac == IF Len(parts) = 2 THEN ReadDigits(parts[2]) ELSE 0
             places == IF Len(parts) = 2 THEN Len(parts[2]) ELSE 0
         IN  IF Len(parts) > 2 \/ whole < 0 \/ frac < 0 \/ places > 3
             THEN [numeric |-> FALSE, value |-> Null]
             ELSE [numeric |-> TRUE,
                   value |-> Div((IF neg THEN -1 ELSE 1) * (whole * Pow10(places) + frac),
                                 Pow10(places))]

\* The file read again: the mark of the encoding dropped, the lines cut at
\* the semicolons, the columns found by their place in the head line.
ReadCsv(file) ==
    LET text == IF SubSeq(file, 1, 1) = BOM THEN SubSeq(file, 2, Len(file)) ELSE file
        lines == Split(text, "\n")
    IN  [i \in 1..(Len(lines) - 1) |-> Split(lines[i + 1], ";")]

\* Row i of the file read again holds the two numbers of row i exported.
RowReadBack(cells, row) ==
    /\ Len(cells) = Len(CsvHeaders)
    /\ ReadCell(cells[4]) = [numeric |-> TRUE, value |-> row.radata]
    /\ ReadCell(cells[5]) = [numeric |-> TRUE, value |-> row.trend]

\* C16: the file that exportCSV gives, read again with the semicolon as
\* separator and the comma as decimal mark, has one line per exported row,
\* and the line holds the raw value and the trend of the row (numbers of two
\* decimals; an empty cell for null).
C16_RoundTrip ==
    (download.done /\ download.alert = "") =>
        LET read == ReadCsv(download.file)
        IN  /\ Len(read) = Len(download.rows)
            /\ \A i \in 1..Len(read) : RowReadBack(read[i], download.rows[i])

\* A file was downloaded with a value of two decimals and a whole number.
C16_Downloaded ==
    /\ download.done
    /\ \E i \in 1..Len(download.rows) : download.rows[i].trend[2] = 100
    /\ \E i \in 1..Len(download.rows) : download.rows[i].radata[2] = 1

\* Nothing of the dashboard was produced by the generator.
NothingGenerated ==
    /\ pc # "generated"
    /\ koData = EmptyTable
    /\ nokkelData = NoNokkelData
    /\ koChart = NoChart
    /\ nokChart = NoChart

\* The generator with a source file missing: it ends with the error, and it
\* writes the page only if it loaded the three files.
StaticMissingIsFatal ==
    /\ (mode = "static" /\ files # SourceFiles) => NothingGenerated
    /\ pc = "failed" => (files # SourceFiles /\ NothingGenerated)
    /\ pc = "generated" => files = SourceFiles

\* C17: with a source file missing the run ends in an error and produces
\* nothing: the generator writes no page (it writes it only with the three
\* files loaded), and a run of the live page of the congestion that starts
\* with its file missing shows an error and neither chart nor export.
C17_MissingFileIsFatal ==
    [][ /\ StaticMissingIsFatal
        /\ (mode = "live" /\ KoFile \notin files /\ liveOut' # liveOut)
              => liveOut'.status \in {"error", "exception"} ]_vars

\* The generator has ended with the error of a missing file.
C17_GeneratorFailed == pc = "failed" /\ files # SourceFiles /\ files # {}

\* C20: while the live server runs it never writes the source file of the
\* congestion, and the table that st.cache_data keeps is the table that the
\* file on disk holds.
C20_CacheEqualsDisk ==
    [][ mode = "live" =>
            /\ koRows' = koRows
            /\ cache'.cached => cache'.df = load_forsinkelser_data(koRows') ]_vars

\* The places of the records that line k of the flow chart is drawn from,
\* under the selection of the page: the four filters and, where the
\* selection is split, the zone that names the line.
LineRecords(k) ==
    LET fraAlle == AlleValgt(nokSel.fra)
        tilAlle == AlleValgt(nokSel.til)
        split == IF ~fraAlle /\ Cardinality(nokSel.fra) > 1 THEN "fra"
                 ELSE IF ~tilAlle /\ Cardinality(nokSel.til) > 1 THEN "til"
                 ELSE "null"
        name == nokChart.traces[2 * k - 1].name
    IN  {j \in 1..Len(nokkelData.records) :
            LET r == nokkelData.records[j]
            IN  /\ fraAlle \/ r.delomrade_fra \in nokSel.fra
                /\ tilAlle \/ r.delomrade_til \in nokSel.til
                /\ nokSel.tid = "Alle" \/ r.time_of_day = nokSel.tid
                /\ nokSel.ukedag = "Alle" \/ r.weekday_indicator = nokSel.ukedag
                /\ split = "fra" => r.delomrade_fra = name
                /\ split = "til" => r.delomrade_til = name}

\* The sum of the counts at a set of places of the records.
RECURSIVE CountSum(_)
CountSum(places) ==
    IF places = {} THEN 0
    ELSE LET j == CHOOSE j \in places : TRUE
         IN  nokkelData.records[j].reiser[1] + CountSum(places \ {j})

\* C18: a count that could not be parsed stays a gap in the sums per quarter
\* of the flow chart: the value of a line at a quarter is the sum of the
\* parsed counts of its records of that quarter, and it is null, not zero,
\* where none of them was parsed.
C18_NullStaysGap ==
    nokChart.drawn =>
        \A k \in 1..(Len(nokChart.traces) \div 2) :
            LET raw == nokChart.traces[2 * k - 1]
            IN  \A i \in 1..Len(raw.x) :
                    LET parsed == {j \in LineRecords(k) :
                                      /\ nokkelData.records[j].kvartal = raw.x[i]
                                      /\ nokkelData.records[j].reiser # Null}
                    IN  raw.y[i] = IF parsed = {} THEN Null ELSE <<CountSum(parsed), 1>>

\* The key of koData that the widgets of the static page select.
SelectedKey ==
    IF koSel.xakse = "dato" THEN koSel.strekning \o "_" \o koSel.tid
    ELSE koSel.strekning \o "_" \o koSel.tid \o "_klokkeslett"

\* C19: a selection without data shows no chart.  On the static page of the
\* congestion no chart is displayed while the selection has no entry in
\* koData, whatever was selected before; on the live page a chart is
\* rendered only of a table that has rows.
C19_NoDataNoChart ==
    /\ (mode = "static" /\ page = "forsinkelser" /\ SelectedKey \notin DOMAIN koData)
          => ~koChart.drawn
    /\ (mode = "live" /\ liveOut.status = "chart") => liveOut.df_plot # <<>>

\* No step of the static page changes the embedded data.
EmbeddedDataKept ==
    [][ (mode = "static" /\ pc = "generated") =>
            (koData' = koData /\ nokkelData' = nokkelData) ]_vars

\* What the page of the flows shows is what its selection gives on the
\* embedded data: the chart, the rows for the export, and the flows of the
\* open modal.
FlowsBySelection ==
    /\ (mode = "static" /\ nokChart.drawn) =>
          LET drawn == updateNokkelChart(nokkelData, nokSel)
          IN  nokChart = drawn.chart /\ csvExportData = drawn.csvExportData
    /\ (mode = "static" /\ modal.display = "block") =>
          sankeyChart = updateSankeyChart(nokkelData, nokSel, modal.retning)

\* What the page of the congestion shows is what its selection gives on the
\* embedded data, as if nothing had been selected before.
CongestionBySelection ==
    (mode = "static" /\ page = "forsinkelser") =>
        koChart = updateKoChart(koData, koSel, NoChart)

\* C21: the handlers of the static page leave koData and nokkelData as they
\* were embedded, and the series displayed for a selection are those of
\* that selection alone, whatever was selected before.
C21_SeriesBySelectionOnly ==
    [][ /\ (mode = "static" /\ pc = "generated") =>
              (koData' = koData /\ nokkelData' = nokkelData)
        /\ (mode' = "static" /\ page' = "forsinkelser") =>
              koChart' = updateKoChart(koData', koSel', NoChart)
        /\ (mode' = "static" /\ nokChart'.drawn) =>
              nokChart' = updateNokkelChart(nokkelData', nokSel').chart ]_vars

-----------------------------------------------------------------------------
(* The export of the live page. *)

\* A number of the calendar or the clock in two digits.
Pad2(n) == IF n < 10 THEN "0" \o Digits(n) ELSE Digits(n)

\* dt.strftime('%d.%m.%Y') as text, "15.01.2024".
DatoText(dato_str) == Pad2(dato_str[1]) \o "." \o Pad2(dato_str[2]) \o "." \o Digits(dato_str[3])

\* The clock time as text, "07:30".
KlokkeText(k) == Digits(k[1]) \o Digits(k[2]) \o ":" \o Digits(k[3]) \o Digits(k[4])

\* The decimals of a float as its repr writes them, here up to six places:
\* no trailing zero, at least one digit.
RECURSIVE FloatDecimals(_, _)
FloatDecimals(f, width) ==
    IF width = 1 THEN Digits(f)
    ELSE IF f % 10 = 0 THEN FloatDecimals(f \div 10, width - 1)
    ELSE IF Len(Digits(f)) < width THEN "0" \o FloatDecimals(f, width - 1)
    ELSE Digits(f)

\* A float cell of to_csv(decimal=","): the repr of the float with the point
\* replaced; a missing value is written as the empty na_rep.
FloatText(x, decimal) ==
    IF x = Null \/ x = NaN THEN ""
    ELSE IF x[2] = 0 THEN "inf"
    ELSE LET m == (Abs(x[1]) * 1000000) \div x[2]
         IN  (IF x[1] < 0 THEN "-" ELSE "")
                \o Digits(m \div 1000000) \o decimal \o FloatDecimals(m % 1000000, 6)

\* csv.QUOTE_MINIMAL: a text cell holding the separator, a quote or a line
\* break is written between double quotes.
QuoteMinimal(s, sep) ==
    IF \E i \in 1..Len(s) : SubSeq(s, i, i) \in {sep, "\"", "\n"}
    THEN "\"" \o s \o "\"" ELSE s

\* export_df.to_csv(index=False, sep=";", decimal=","): the text returned,
\* one line per row after the line of the column names, each line ended.
to_csv(columns, export_df, x_akse_valg, sep, decimal) ==
    LET lines == [i \in 1..Len(export_df) |->
                    Join(<<IF x_akse_valg = "Over dato" THEN DatoText(export_df[i].x)
                                                         ELSE KlokkeText(export_df[i].x),
                           QuoteMinimal(export_df[i].strekning, sep),
                           FloatText(export_df[i].y, decimal)>>, sep)]
    IN  Join(<<Join(columns, sep)>> \o lines, "\n") \o "\n"

\* csv = export_df.to_csv(index=False, sep=";", decimal=",").encode("utf-8"):
\* the data of the download button of a run that drew a chart. The encoding
\* utf-8 writes the characters of the text and nothing before them.
LiveCsv(out, sel) ==
    LET y_label == IF sel.diagram_valg = "Kø" THEN "Kø (min/km)" ELSE "Forsinkelser (min)"
        columns == IF sel.x_akse_valg = "Over dato"
                   THEN <<"Dato", "Strekning", y_label>>
                   ELSE <<"Klokkeslett", "Strekning", y_label>>
    IN  to_csv(columns, out.export_df, sel.x_akse_valg, ";", ",")

\* A text is semicolon-separated with decimal commas behind a byte-order
\* mark: it starts with the mark, every line has as many cells as the head
\* line, and no cell of the body holds a point.
CsvShape(text, columns, numeric) ==
    /\ Len(text) > 0
    /\ SubSeq(text, 1, 1) = BOM
    /\ LET lines == Split(SubSeq(text, 2, Len(text)), "\n")
       IN  \A i \in 1..Len(lines) :
              lines[i] # "" =>
                 LET cells == Split(lines[i], ";")
                 IN  /\ Len(cells) = columns
                     /\ i > 1 => \A c \in numeric :
                           \A j \in 1..Len(cells[c]) : SubSeq(cells[c], j, j) # "."

\* The download of the static page has the shape.
StaticCsvShape ==
    (mode = "static" /\ download.done /\ download.alert = "") =>
        CsvShape(download.file, 5, {4, 5})

\* C22: in both delivery modes the export is semicolon-separated, writes
\* the decimal separator as a comma and starts with the byte-order mark.
C22_CsvShape ==
    /\ (mode = "static" /\ download.done /\ download.alert = "") =>
          CsvShape(download.file, 5, {4, 5})
    /\ (mode = "live" /\ liveOut.status = "chart") =>
          CsvShape(LiveCsv(liveOut, liveSel), 3, {3})

\* The live export without the demand of the mark: separator and decimal
\* comma alone.
LiveCsvSeparators ==
    (mode = "live" /\ liveOut.status = "chart") =>
        CsvShape(BOM \o LiveCsv(liveOut, liveSel), 3, {3})

-----------------------------------------------------------------------------
(* The live chart of all locations against the table of the static page. *)

\* The live server shows all locations from the earliest date of the file on.
LiveAllLocations ==
    /\ LiveChart
    /\ liveSel.valgte_strekninger = {}
    /\ LiveOverDato => liveSel.start_dato = MinDato(load_forsinkelser_data(koRows))

\* The entry of 'Alle strekninger' the generator computes from the same lines
\* for the bucket and the axis of the live selection (no entry: no labels).
StaticAlleEntry ==
    LET table == aggregate_ko_data(koRows)
        key == IF LiveOverDato THEN KeyDato("Alle strekninger", liveSel.tid_valg)
                               ELSE KeyKlokke("Alle strekninger", liveSel.tid_valg)
    IN  IF key \notin DOMAIN table THEN [labels |-> <<>>, values |-> <<>>]
        ELSE [labels |-> IF LiveOverDato THEN table[key].datoer ELSE table[key].klokkeslett,
              values |-> IF liveOut.y_col = "ko_min_km" THEN table[key].ko
                                                        ELSE table[key].forsinkelser]

\* The labels of the live chart, in the order of its rows.
LivePlotLabels ==
    [i \in 1..Len(liveOut.df_plot) |->
        IF LiveOverDato THEN liveOut.df_plot[i].dato_str ELSE liveOut.df_plot[i].klokkeslett]

\* A value of the live chart is the value v of the table up to the rounding
\* to 3 decimals; no number on one side is no number on the other.
SameTo3(y, v) == IF IsNull(y) THEN v = Null ELSE y[2] # 0 /\ v = Round3(y)

\* The live chart and the entry have the same labels and values.
SameAsStaticEntry ==
    /\ LivePlotLabels = StaticAlleEntry.labels
    /\ Len(liveOut.df_plot) = Len(StaticAlleEntry.values)
    /\ \A i \in 1..Len(liveOut.df_plot) :
          SameTo3(liveOut.df_plot[i].y, StaticAlleEntry.values[i])

\* C23: for the same lines, bucket and metric and the start date at the
\* earliest date, the live means of all locations per date and per clock
\* time are the entries of 'Alle strekninger' of the static table: the same
\* labels and, to 3 decimals, the same values, whatever the weights and
\* the missing values of the lines.
C23_LiveEqualsStaticEntry == LiveAllLocations => SameAsStaticEntry

\* Every line of the live selection's bucket has a value of the metric
\* drawn and a weight that is not negative.
PlainLines ==
    \A j \in 1..Len(koRows) :
        koRows[j].tid_dag = liveSel.tid_valg =>
            /\ koRows[j][liveOut.y_col] # Null
            /\ koRows[j].bil # Null /\ koRows[j].bil[1] >= 0

\* The same for files of plain lines, a weight of zero included.
LiveEqualsStaticPlain == (LiveAllLocations /\ PlainLines) => SameAsStaticEntry

\* A live chart of plain lines with a weight of zero in the bucket drawn.
PlainWithZeroWeight ==
    /\ LiveAllLocations /\ PlainLines
    /\ \E j \in 1..Len(koRows) :
          koRows[j].tid_dag = liveSel.tid_valg /\ koRows[j].bil = <<0>>

-----------------------------------------------------------------------------
(* The navigation of the static page. *)

InitNav == InitWith({KoLines}, {NokkelLines}, {"static"}) /\ NoCalls

\* The nav buttons, the home cards and the widgets of the congestion views.
NextNav ==
    \/ Main
    \/ \E p \in Pages : ShowPage(p)
    \/ \E p \in HomeCards : NavigateTo(p)
    \/ SelectStrekningKo
    \/ SetVisning
    \/ SetXakse
    \/ SetTid

SpecNav == InitNav /\ [][NextNav]_vars

\* C24: whatever nav buttons and home cards were clicked, exactly one page
\* is active, exactly one nav button is active and it is the button of that
\* page, and a sidebar is visible only if it is the sidebar of the active
\* page, none being visible on 'hjem' and 'kart'.
C24_OnePageOneButton ==
    /\ Cardinality(nav.pages) = 1
    /\ Cardinality(nav.buttons) = 1
    /\ \A p \in nav.pages : nav.buttons = {ButtonOf(p)} /\ page = p
    /\ nav.sidebars \subseteq nav.pages
    /\ nav.sidebars \cap {"hjem", "kart"} = {}
    /\ (nav.pages \cap {"hjem", "kart"}) # {} => nav.sidebars = {}

\* The map was opened, from the home card or with its button.
C24_Witness ==
    /\ pc = "generated"
    /\ nav = [pages |-> {"kart"}, buttons |-> {"Kart"}, sidebars |-> {}]
    /\ koChart.drawn

-----------------------------------------------------------------------------
(* The button and the modal of the flows. *)

\* A zone selection is 'all' when nothing is selected or 'Alle' is among the
\* options selected; otherwise it is specific.
IsAll(valg) == valg = {} \/ "Alle" \in valg

\* C25: the button 'Vis reisestrømmer' is visible exactly when at least one
\* of the two zone selections is specific; it is hidden as the page is
\* loaded and whenever both selections are 'all'.
C25_ButtonWhenSpecific ==
    /\ sankeyBtn \in {"none", "inline-block"}
    /\ sankeyBtn = "inline-block" <=> ~(IsAll(nokSel.fra) /\ IsAll(nokSel.til))

\* The button is hidden with 'Alle' selected together with a zone on one
\* side and nothing selected on the other.
C25_Witness ==
    /\ nokChart.drawn
    /\ sankeyBtn = "none"
    /\ "Alle" \in nokSel.fra /\ Cardinality(nokSel.fra) = 2
    /\ nokSel.til = {}

\* The button is visible with 'Alle' and a zone selected on one side and a
\* zone on the other.
ButtonVisibleBesideAlle ==
    /\ sankeyBtn = "inline-block"
    /\ "Alle" \in nokSel.fra /\ Cardinality(nokSel.fra) = 2

\* The zone selection of a direction.
ValgOf(sel, retning) == IF retning = "fra" THEN sel.fra ELSE sel.til

\* What the opening of the modal does to the radio buttons.
OpeningRule ==
    [][ (modal.display = "none" /\ modal'.display = "block") =>
            /\ IsAll(nokSel.fra) =>
                  modal'.retning = "til" /\ modal'.fraDisabled /\ ~modal'.tilDisabled
            /\ (~IsAll(nokSel.fra) /\ IsAll(nokSel.til)) =>
                  modal'.retning = "fra" /\ modal'.tilDisabled /\ ~modal'.fraDisabled
            /\ (~IsAll(nokSel.fra) /\ ~IsAll(nokSel.til)) =>
                  modal'.retning = modal.retning /\ ~modal'.fraDisabled /\ ~modal'.tilDisabled
      ]_vars

\* While the modal is open the diagram is the one of the direction checked,
\* and the zone selection of that direction is specific.
DirectionSpecific ==
    modal.display = "block" =>
        /\ sankeyChart = updateSankeyChart(nokkelData, nokSel, modal.retning)
        /\ ~IsAll(ValgOf(nokSel, modal.retning))

\* C26: whenever the flow diagram is computed with the modal open, the
\* direction in use is one whose zone selection is specific: opening the
\* modal forces 'til' when the from-selection is 'all' and 'fra' when the
\* to-selection is 'all', hiding the radio button of the other direction,
\* and keeps the direction of before when both selections are specific.
C26_DirectionSpecific == []DirectionSpecific /\ OpeningRule

\* The modal was opened with the direction 'fra' checked before and the
\* from-selection 'all': the direction is 'til' and the radio 'fra' is hidden.
C26_Witness ==
    /\ modal.display = "block"
    /\ modal.retning = "til" /\ modal.fraDisabled
    /\ IsAll(nokSel.fra)
    /\ sankeyChart.status = "chart"

\* The modal is open with both selections specific and the direction 'til'.
BothSpecificTil ==
    /\ modal.display = "block"
    /\ modal.retning = "til" /\ ~modal.fraDisabled /\ ~modal.tilDisabled

-----------------------------------------------------------------------------
(* The flow summary beside the filters of the chart. *)

InitSummary == InitWith({KoLines}, {NokkelLines}, {"static"}) /\ NoCalls

\* The page of the flows with all its filters and the modal.
NextSummary ==
    \/ Main
    \/ ShowPage("nokkeltall")
    \/ SelectOmradeFra
    \/ SelectOmradeTil
    \/ SetTidNokkel
    \/ SetUkedagNokkel
    \/ OpenSankeyModal
    \/ SetRetning
    \/ CloseSankeyModal

SpecSummary == InitSummary /\ [][NextSummary]_vars

\* The selections that differ from sel in the time of day, the kind of day
\* and the zone selection of the direction opposite to retning only.
SameDirectionValg(sel, retning) ==
    {[tid |-> tid, ukedag |-> ukedag,
      fra |-> IF retning = "fra" THEN sel.fra ELSE other,
      til |-> IF retning = "til" THEN sel.til ELSE other] :
        tid \in {"Alle", "AM", "PM"}, ukedag \in {"Alle", "Weekday", "Weekend"},
        other \in IF retning = "fra" THEN TilChoices(nokkelData) ELSE FraChoices(nokkelData)}

\* C27: the flow summary of the open modal, its top-10 pairs and their sums,
\* is the one of its direction and of that direction's zone selection with
\* any time of day, kind of day and opposite zone selection in their place.
C27_SummaryByDirectionOnly ==
    modal.display = "block" =>
        \A other \in SameDirectionValg(nokSel, modal.retning) :
            updateSankeyChart(nokkelData, other, modal.retning) = sankeyChart

\* The modal shows flows while a time of day is selected that changes the
\* chart of the page: with 'Alle' in its place the chart is another one.
C27_Witness ==
    /\ modal.display = "block"
    /\ sankeyChart.status = "chart"
    /\ nokSel.tid = "AM"
    /\ nokChart # updateNokkelChart(nokkelData, [nokSel EXCEPT !.tid = "Alle"]).chart

-----------------------------------------------------------------------------
(* The series of the chart of the flows. *)

\* A file with counts of decimals, a missing count and lines that differ in
\* time of day and kind of day.
SeriesLines ==
    << [Rec("A", "Z", Quarters[1], <<1, 8>>) EXCEPT !.time_of_day = "AM"],
       [Rec("A", "Z", Quarters[1], <<1, 4>>) EXCEPT !.time_of_day = "PM"],
       [Rec("A", "Y", Quarters[2], <<2>>) EXCEPT !.weekday_indicator = "Weekend"],
       [Rec("B", "Z", Quarters[1], Null) EXCEPT !.time_of_day = "AM"],
       [Rec("B", "Z", Quarters[3], <<3>>) EXCEPT !.time_of_day = "PM",
                                                !.weekday_indicator = "Weekend"],
       [Rec("A", "Z", Quarters[3], <<1>>) EXCEPT !.time_of_day = "AM"] >>

InitSeries == InitWith({KoLines}, {SeriesLines, Reverse(SeriesLines)}, {"static"}) /\ NoCalls

\* The page of the flows with its four filters.
NextSeries ==
    \/ Main
    \/ ShowPage("nokkeltall")
    \/ SelectOmradeFra
    \/ SelectAlleAndZones
    \/ SelectOmradeTil
    \/ SetTidNokkel
    \/ SetUkedagNokkel

SpecSeries == InitSeries /\ [][NextSeries]_vars

\* The quarter a comes before the quarter b.
QuarterBefore(a, b) == a[1] < b[1] \/ (a[1] = b[1] /\ a[2] < b[2])

\* The sum of the trip counts of the records at places, a missing count
\* adding nothing.
RECURSIVE CountTotal(_)
CountTotal(places) ==
    IF places = {} THEN <<0, 1>>
    ELSE LET j == CHOOSE j \in places : TRUE
             c == nokkelData.records[j].reiser
             rest == CountTotal(places \ {j})
         IN  IF c = Null THEN rest
             ELSE IF Len(c) = 1 THEN Div(rest[1] + c[1] * rest[2], rest[2])
             ELSE Div(rest[1] * c[2] + c[1] * rest[2], rest[2] * c[2])

\* The number r has at most 2 decimals and no number of 2 decimals is
\* nearer to x (of two that are as near, r is the greater).
IsRounded2(r, x) ==
    /\ r[2] > 0 /\ (100 * r[1]) % r[2] = 0
    /\ LET k == (100 * r[1]) \div r[2]
       IN  /\ (2 * k - 1) * x[2] <= 200 * x[1]
           /\ 200 * x[1] < (2 * k + 1) * x[2]

\* C28: each series of the chart lists exactly the quarters that have at
\* least one record matching the four filters (and the zone of the series),
\* in chronological order; the value of a quarter is the sum of the trip
\* counts of its matching records rounded to 2 decimals; the trend series
\* has the same quarters and the same length.
C28_SeriesOfMatchingQuarters ==
    nokChart.drawn =>
        \A k \in 1..(Len(nokChart.traces) \div 2) :
            LET raw == nokChart.traces[2 * k - 1]
                trend == nokChart.traces[2 * k]
                at(q) == {j \in LineRecords(k) : nokkelData.records[j].kvartal = q}
            IN  /\ {raw.x[i] : i \in 1..Len(raw.x)}
                      = {nokkelData.records[j].kvartal : j \in LineRecords(k)}
                /\ \A i, j \in 1..Len(raw.x) : i < j => QuarterBefore(raw.x[i], raw.x[j])
                /\ Len(raw.y) = Len(raw.x)
                /\ \A i \in 1..Len(raw.x) :
                      IsRounded2(raw.y[i], CountTotal(at(raw.x[i])))
                /\ trend.x = raw.x
                /\ Len(trend.y) = Len(raw.y)

\* The chart of a file whose lines are not in the order of time shows a
\* series of three quarters whose first value, 0.38, is the rounded sum of
\* 0.125 and 0.25.
C28_Witness ==
    /\ nokChart.drawn
    /\ QuarterBefore(nokRows[Len(nokRows)].kvartal, nokRows[1].kvartal)
    /\ \E k \in 1..(Len(nokChart.traces) \div 2) :
          /\ Len(nokChart.traces[2 * k - 1].x) = 3
          /\ nokChart.traces[2 * k - 1].y[1] = <<19, 50>>
          /\ Len(nokChart.traces[2 * k].y) = 3

-----------------------------------------------------------------------------
(* The split of the chart of the flows. *)

\* The side whose zones get a series pair each: a side whose selection is
\* specific and holds more than one zone, the from-side first.
SplitSide ==
    IF ~IsAll(nokSel.fra) /\ Cardinality(nokSel.fra) > 1 THEN "fra"
    ELSE IF ~IsAll(nokSel.til) /\ Cardinality(nokSel.til) > 1 THEN "til"
    ELSE "none"

\* The records that match the four filters and, for a zone of the split
\* side, have that zone on that side.
CountedFor(zone) ==
    {j \in 1..Len(nokkelData.records) :
        LET r == nokkelData.records[j]
        IN  /\ IsAll(nokSel.fra) \/ r.delomrade_fra \in nokSel.fra
            /\ IsAll(nokSel.til) \/ r.delomrade_til \in nokSel.til
            /\ nokSel.tid = "Alle" \/ r.time_of_day = nokSel.tid
            /\ nokSel.ukedag = "Alle" \/ r.weekday_indicator = nokSel.ukedag
            /\ SplitSide = "fra" => r.delomrade_fra = zone
            /\ SplitSide = "til" => r.delomrade_til = zone}

\* The pair of traces k is a raw series and its trend over the records
\* counted for the zone.
PairCounts(k, zone) ==
    LET raw == nokChart.traces[2 * k - 1]
        trend == nokChart.traces[2 * k]
    IN  /\ raw.mode = "markers" /\ trend.mode = "lines"
        /\ trend.x = raw.x
        /\ {raw.x[i] : i \in 1..Len(raw.x)}
              = {nokkelData.records[j].kvartal : j \in CountedFor(zone)}
        /\ \A i \in 1..Len(raw.x) :
              IsRounded2(raw.y[i],
                         CountTotal({j \in CountedFor(zone) :
                                        nokkelData.records[j].kvartal = raw.x[i]}))

\* C29: the chart holds one pair of a raw and a trend series per selected
\* zone exactly when a side's selection is specific and holds more than one
\* zone, by from-zone when both sides do (the to-selection then only
\* filters), and exactly one combined pair otherwise; the records counted for
\* a pair are those matching the four filters with, in a split, the zone of
\* the pair on the split side.
C29_SplitPerZone ==
    nokChart.drawn =>
        LET traces == nokChart.traces
            zones == ValgOf(nokSel, SplitSide)
        IN  IF SplitSide = "none"
            THEN Len(traces) = 2 /\ PairCounts(1, "")
            ELSE /\ Len(traces) = 2 * Cardinality(zones)
                 /\ \A z \in zones :
                       \E k \in 1..Cardinality(zones) :
                           /\ traces[2 * k - 1].name = z /\ traces[2 * k].name = z
                           /\ PairCounts(k, z)

\* Both sides hold two zones and a time of day is selected: the chart has a
\* pair for each of the two from-zones.
C29_Witness ==
    /\ nokChart.drawn
    /\ nokSel.fra = {"A", "B"} /\ nokSel.til = {"Y", "Z"} /\ nokSel.tid = "AM"
    /\ Len(nokChart.traces) = 4
    /\ nokChart.traces[1].name = "A" /\ nokChart.traces[3].name = "B"

\* 'Alle' is selected together with two zones: one combined pair.
OnePairWithAlleAndZones ==
    /\ nokChart.drawn
    /\ nokSel.fra = {"Alle", "A", "B"} /\ nokSel.til = {"Y"}
    /\ Len(nokChart.traces) = 2

\* The to-side alone holds two zones: a pair for each of them.
SplitByToZone ==
    /\ nokChart.drawn
    /\ nokSel.fra = {"A"} /\ nokSel.til = {"Y", "Z"}
    /\ Len(nokChart.traces) = 4
    /\ nokChart.traces[1].name = "Y" /\ nokChart.traces[3].name = "Z"

====
